---- MODULE Spec2Model ----
(***************************************************************************)
(* Session lifecycle and tool dispatch of the Playwright MCP server:       *)
(* the module-level Session (browser, page, currentBrowserType,            *)
(* autoAnnotationEnabled), ensureBrowser with its catch/retry path,        *)
(* resetBrowserState, the 'disconnected' listeners and handleToolCall.     *)
(*                                                                         *)
(* Every `await` of the source is a program position (pc) at which the     *)
(* environment may act (a browser disconnects, its listener is delivered,  *)
(* a page closes).  The synchronous code between two awaits runs without   *)
(* interleaving: the positions in SyncPcs admit no environment step.       *)
(***************************************************************************)
EXTENDS Integers, Sequences, FiniteSets, TLC

\* ------------------------------------------------------------------ bounds
MaxBrowsers == 2      \* browser processes launched in one run
MaxPages    == 2      \* pages opened in one run
MaxMsgLen   == 2      \* length of an error message, in fragments
MaxInstances == 2     \* copies of the auto-annotation script in one document
MaxBurst    == 3      \* trigger events in one burst

\* --------------------------------------------------------------- constants
None == 0             \* JavaScript `undefined` for a handle

DefaultBrowserType == "chromium"
Engines == {"chromium", "firefox", "webkit"}

\* tools.ts BROWSER_TOOLS
BROWSER_TOOLS ==
  { "playwright_navigate", "playwright_screenshot", "playwright_click",
    "playwright_iframe_click", "playwright_iframe_fill",
    "playwright_fill_by_index", "playwright_select", "playwright_hover",
    "playwright_evaluate", "playwright_close", "playwright_expect_response",
    "playwright_custom_user_agent", "playwright_get_visible_text",
    "playwright_get_visible_html", "playwright_go_back",
    "playwright_go_forward", "playwright_drag", "playwright_press_key",
    "playwright_annotate", "playwright_click_by_index",
    "playwright_set_auto_annotation", "playwright_get_annotated_elements" }

\* names the switch of handleToolCall routes to a handler object
RoutedTools ==
  (BROWSER_TOOLS \ {"playwright_set_auto_annotation"})
     \cup {"playwright_console_logs"}

\* The substrings the dispatcher's catch block looks for.  A message is a
\* sequence of fragments; each pattern is one fragment long.
ConnectionLossPatterns ==
  { <<"Target page, context or browser has been closed">>,
    <<"Browser has been disconnected">>,
    <<"Target closed">>,
    <<"Protocol error">>,
    <<"Connection closed">> }

Fragments ==
  { "Target page, context or browser has been closed",
    "Browser has been disconnected", "Target closed", "Protocol error",
    "Connection closed", "selector not found", "Connection refused" }

\* text that surrounds a fragment in a message
Padding(n) == [i \in 1..n |-> "selector not found"]

\* error.message: a fragment alone, or one of two fragments with text
\* before it or after it
PaddedFragments == {"Target closed", "Connection refused"}
Messages ==
  { <<f>> : f \in Fragments }
    \cup { Padding(MaxMsgLen - 1) \o <<f>> : f \in PaddedFragments }
    \cup { <<f>> \o Padding(MaxMsgLen - 1) : f \in PaddedFragments }

\* variant: startsWith instead of includes
Includes_PrefixOnly(msg, pat) ==
  Len(msg) >= Len(pat) /\ SubSeq(msg, 1, Len(pat)) = pat

\* String.prototype.includes on fragment sequences
Includes(msg, pat) ==
  \E i \in 1..(Len(msg) - Len(pat) + 1) :
     SubSeq(msg, i, i + Len(pat) - 1) = pat

\* values a handler can throw: an Error with a message, a bare string,
\* or undefined
ThrownValues ==
  { [kind |-> "Error", message |-> m] : m \in Messages }
    \cup { [kind |-> "string", message |-> <<"selector not found">>],
           [kind |-> "undefined", message |-> <<>>] }

\* args.width / args.height, args.userAgent, args.headless, args.proxy: the
\* set of those the call carries; none of them here
NoSettings == {}

\* inputs of handleToolCall used by the model: (name, args)
ToolNames ==
  { "playwright_close", "playwright_click", "playwright_set_auto_annotation",
    "playwright_console_logs", "unknown_tool" }

\* args.browserType: "" stands for an absent field
BrowserTypeArgs == {"", "firefox"}

CallInputs ==
  { [name |-> "playwright_click", browserType |-> t, enabled |-> FALSE,
     settings |-> NoSettings] :
       t \in BrowserTypeArgs }
    \cup { [name |-> "playwright_set_auto_annotation", browserType |-> "",
            enabled |-> e,
            settings |-> NoSettings] : e \in BOOLEAN }
    \cup { [name |-> n, browserType |-> "", enabled |-> FALSE,
     settings |-> NoSettings] :
            n \in ToolNames \ {"playwright_click",
                               "playwright_set_auto_annotation"} }

NoArgs == [name |-> "", browserType |-> "", enabled |-> FALSE,
     settings |-> NoSettings]
\* a CallToolResult: kind is "ok" for isError false; text is content[0].text
NoResult == [kind |-> "none", text |-> <<>>]

VARIABLES
  \* Session (module-level state of toolHandler)
  browser, page, currentBrowserType, autoAnnotationEnabled,
  \* browser processes
  nBrowsers, bConnected, bHasContext, pendingDisc,
  \* pages
  nPages, pBrowser, pClosed, pArmed,
  \* the tool call in flight
  pc, call, phase, tb, tp, ctxPage, ctxBrowser, result,
  \* observation of the call in flight
  launchesInCall, ensureOutcome, handlerRan, heldAtStart, lostAtStart,
  \* the document shown by the Session's page and the auto-annotation
  \* script instances running in it
  initScriptAdded, scriptInstances, debounceTimer, hasTargets,
  mutationPending,
  \* observation of the current burst of trigger events
  burst, gap, rescans, earlyScan,
  \* the elements of the document, window.__playwrightAnnotatedElements,
  \* the overlay nodes drawn in the document
  dom, annotatedElements, overlays,
  \* the response of the last annotation tool and what it did to the page
  response, pageOps,
  \* pages opened by the pages themselves: the contexts that have a 'page'
  \* listener, where that listener stands for each page, and the flag when
  \* the page was opened
  bPageListener, listenerAt, popupFlag,
  \* the options of the latest launch(...) and of the newContext(...) that
  \* followed it, and process.env.CHROME_EXECUTABLE_PATH
  lastOptions, envExecutablePath

session == <<browser, page, currentBrowserType>>
browsers == <<nBrowsers, bConnected, bHasContext, pendingDisc>>
pages == <<nPages, pBrowser, pClosed, pArmed>>
locals == <<phase, tb, tp, ctxPage, ctxBrowser>>
observed == <<launchesInCall, ensureOutcome, handlerRan, heldAtStart,
             lostAtStart>>
vars == <<browser, page, currentBrowserType, autoAnnotationEnabled,
          nBrowsers, bConnected, bHasContext, pendingDisc,
          nPages, pBrowser, pClosed, pArmed,
          pc, call, phase, tb, tp, ctxPage, ctxBrowser, result,
          launchesInCall, ensureOutcome, handlerRan, heldAtStart,
          lostAtStart,
          initScriptAdded, scriptInstances, debounceTimer, hasTargets,
          mutationPending, burst, gap, rescans, earlyScan,
          dom, annotatedElements, overlays, response, pageOps,
          bPageListener, listenerAt, popupFlag,
          lastOptions, envExecutablePath>>

\* the page side: a document and what runs in it
document == <<initScriptAdded, scriptInstances, debounceTimer, hasTargets,
              mutationPending>>
burstObserved == <<burst, gap, rescans, earlyScan>>
scanSide == <<dom, annotatedElements, overlays, response, pageOps>>
tabSide == <<bPageListener, listenerAt, popupFlag>>
launchSide == <<lastOptions, envExecutablePath>>
pageSide == <<document, burstObserved, scanSide, tabSide, launchSide>>

\* setTimeout(annotateElements, 200); time is counted in steps of 100 ms
DebounceMs == 200
DebounceTicks == DebounceMs \div 100

InstanceIds == 1..MaxInstances
NoTimer == [set |-> FALSE, due |-> 0]

\* a tool response of the annotation tools.  kind "annotated" carries the
\* element list; kind "not_found" stands for the text
\* `Element with index ${index} not found. Available indices: 0-${last}`;
\* kind "clicked" carries the point handed to page.mouse.click, doubled,
\* and the coordinates printed in the text `Clicked element [i] (type) at
\* (x, y)`
NoPoint == [x2 |-> 0, y2 |-> 0]
NoResponse == [kind |-> "none", isError |-> FALSE, elements |-> <<>>,
               index |-> 0, last |-> 0, point |-> NoPoint,
               reported |-> [x |-> 0, y |-> 0]]

\* the options of a launch and of a context: the settings of the call that
\* were handed over, and the executable path handed to the launch ("" for
\* none).  NoOptions stands for no launch so far
NoPath == ""
NoOptions == [browser |-> 0, attempt |-> "none", launch |-> {},
              executablePath |-> NoPath, hasContext |-> FALSE, context |-> {}]
NoLaunchYet == lastOptions = NoOptions
\* CHROME_EXECUTABLE_PATH is not set
LaunchSideIdle ==
  /\ NoLaunchYet
  /\ envExecutablePath = NoPath

\* an empty document without overlays, no annotation tool called yet
\* no page has been opened by a page
TabSideIdle ==
  /\ bPageListener = [b \in 1..MaxBrowsers |-> FALSE]
  /\ listenerAt = [p \in 1..MaxPages |-> "none"]
  /\ popupFlag = [p \in 1..MaxPages |-> "none"]

ScanSideIdle ==
  /\ dom = <<>>
  /\ annotatedElements = <<>>
  /\ overlays = <<>>
  /\ response = NoResponse
  /\ pageOps = <<>>

\* a page on about:blank, no script instance, nothing observed
PageSideIdle ==
  /\ ScanSideIdle
  /\ TabSideIdle
  /\ NoLaunchYet
  /\ initScriptAdded = FALSE
  /\ scriptInstances = 0
  /\ debounceTimer = [i \in InstanceIds |-> NoTimer]
  /\ hasTargets = FALSE
  /\ mutationPending = FALSE
  /\ burst = 0
  /\ gap = 0
  /\ rescans = 0
  /\ earlyScan = FALSE

BrowserIds == 1..MaxBrowsers
PageIds == 1..MaxPages

\* positions that are an `await`
ClosePcs == {"close_tool", "close_precheck", "close_step1", "close_type",
             "close_catch"}
AwaitPcs == ClosePcs \cup {"launch", "newContext", "newPage", "console",
                           "arm", "handler", "nav_goto", "nav_evaluate"}
\* positions inside synchronous code
SyncPcs == {"e_start", "e_launchq", "verify", "catch", "e_return",
            "e_throw", "route", "returned", "nav_start", "nav_rethrown"}

\* ----------------------------------------------------------- Playwright API
\* Browser.isConnected()
isConnected(b) == bConnected[b]

\* Page.isClosed()
isClosed(p) == pClosed[p]

\* when a browser disconnects, its contexts and pages close with it
ContextsAfterLoss(b) == [bHasContext EXCEPT ![b] = FALSE]

\* whether the context created in part ph of ensureBrowser gets a
\* context.on('page', ...) listener
ListensForPages(ph) == ph # "verify"
PagesClosedAfterLoss(b) ==
  [p \in PageIds |-> pClosed[p] \/ (p <= nPages /\ pBrowser[p] = b)]
PagesArmedAfterLoss(b) ==
  [p \in PageIds |-> pArmed[p] /\ ~(p <= nPages /\ pBrowser[p] = b)]

\* args.browserType || 'chromium'
RequestedType(a) ==
  IF a.browserType = "" THEN DefaultBrowserType ELSE a.browserType

\* the tool side before the first call
ToolSideInit ==
  /\ browser = None
  /\ page = None
  /\ currentBrowserType = DefaultBrowserType
  /\ nBrowsers = 0
  /\ bConnected = [b \in BrowserIds |-> FALSE]
  /\ bHasContext = [b \in BrowserIds |-> FALSE]
  /\ pendingDisc = {}
  /\ nPages = 0
  /\ pBrowser = [p \in PageIds |-> None]
  /\ pClosed = [p \in PageIds |-> FALSE]
  /\ pArmed = [p \in PageIds |-> FALSE]
  /\ pc = "idle"
  /\ call = NoArgs
  /\ phase = "none"
  /\ tb = None
  /\ tp = None
  /\ ctxPage = None
  /\ ctxBrowser = None
  /\ result = NoResult
  /\ launchesInCall = 0
  /\ ensureOutcome = "none"
  /\ handlerRan = FALSE
  /\ heldAtStart = None
  /\ lostAtStart = FALSE

Init ==
  /\ ToolSideInit
  /\ autoAnnotationEnabled = TRUE
  /\ PageSideIdle
  /\ envExecutablePath = NoPath


\* ------------------------------------------------------------ Session store
\* variant: the browser handle is kept
resetBrowserState_KeepHandle ==
  /\ page' = None
  /\ currentBrowserType' = DefaultBrowserType
  /\ UNCHANGED browser

\* variant: the engine variant is kept
resetBrowserState_KeepVariant ==
  /\ browser' = None
  /\ page' = None
  /\ UNCHANGED currentBrowserType

\* resetBrowserState(): clears the handles, closes nothing
resetBrowserState ==
  /\ browser' = None
  /\ page' = None
  /\ currentBrowserType' = DefaultBrowserType

\* variant: the listener leaves the Session alone while a call is in flight
DisconnectedListenerBody_IdleOnly ==
  IF pc = "idle"
    THEN browser' = None /\ page' = None /\ UNCHANGED currentBrowserType
    ELSE UNCHANGED session

\* body of the 'disconnected' listener registered after each launch; it
\* assigns the module-level variables, whichever browser emitted the event
DisconnectedListenerBody ==
  /\ browser' = None
  /\ page' = None
  /\ UNCHANGED currentBrowserType

\* ------------------------------------------------------------- environment
EnvMayAct == pc \in AwaitPcs \cup {"idle"}

\* the browser process dies or its connection drops: isConnected() turns
\* false, its contexts and pages close, and the 'disconnected' event is
\* queued for the listener
BrowserDisconnect(b) ==
  /\ UNCHANGED pageSide
  /\ EnvMayAct
  /\ b \in 1..nBrowsers
  /\ bConnected[b]
  /\ bConnected' = [bConnected EXCEPT ![b] = FALSE]
  /\ bHasContext' = ContextsAfterLoss(b)
  /\ pClosed' = PagesClosedAfterLoss(b)
  /\ pArmed' = PagesArmedAfterLoss(b)
  /\ pendingDisc' = pendingDisc \cup {b}
  /\ UNCHANGED <<session, autoAnnotationEnabled, nBrowsers, nPages,
                 pBrowser, pc, call, locals, result, observed>>

\* the event loop delivers the 'disconnected' event of browser b
DisconnectedListener(b) ==
  /\ UNCHANGED pageSide
  /\ EnvMayAct
  /\ b \in pendingDisc
  /\ DisconnectedListenerBody
  /\ pendingDisc' = pendingDisc \ {b}
  /\ UNCHANGED <<autoAnnotationEnabled, nBrowsers, bConnected, bHasContext,
                 pages, pc, call, locals, result, observed>>

\* a page of a live browser closes (window.close(), user action)
PageClose(p) ==
  /\ UNCHANGED pageSide
  /\ EnvMayAct
  /\ p \in 1..nPages
  /\ ~isClosed(p)
  /\ pClosed' = [pClosed EXCEPT ![p] = TRUE]
  /\ pArmed' = [pArmed EXCEPT ![p] = FALSE]
  /\ UNCHANGED <<session, autoAnnotationEnabled, browsers, nPages, pBrowser,
                 pc, call, locals, result, observed>>

\* -------------------------------------------------------------- dispatcher
\* variant: every tool is given a browser
NeedsSession_Every(name) == TRUE

\* `BROWSER_TOOLS.includes(name)`: the tool is browser-dependent
NeedsSession(name) == name \in BROWSER_TOOLS

\* handleToolCall(name, args): the synchronous prefix, up to the first await
\* or the return
HandleToolCall(inp) ==
  /\ UNCHANGED pageSide
  /\ pc = "idle"
  /\ call' = inp
  /\ heldAtStart' = IF browser # None /\ isConnected(browser)
                      THEN browser ELSE None
  /\ lostAtStart' = (/\ ~(browser # None /\ isConnected(browser))
                     /\ \E b \in 1..nBrowsers : ~isConnected(b))
  /\ launchesInCall' = 0
  /\ ensureOutcome' = "none"
  /\ handlerRan' = FALSE
  /\ UNCHANGED <<autoAnnotationEnabled, browsers, pages, phase, tp, ctxPage,
                 ctxBrowser>>
  /\ IF inp.name = "playwright_close"
       THEN IF browser # None
              THEN IF isConnected(browser)
                     THEN /\ pc' = "close_tool"
                          /\ tb' = browser
                          /\ result' = NoResult
                          /\ UNCHANGED session
                     ELSE /\ resetBrowserState
                          /\ pc' = "returned"
                          /\ result' = [kind |-> "ok",
                                        text |-> <<"Browser closed successfully">>]
                          /\ tb' = None
              ELSE /\ pc' = "returned"
                   /\ result' = [kind |-> "ok",
                                 text |-> <<"No browser instance to close">>]
                   /\ tb' = None
                   /\ UNCHANGED session
       ELSE /\ result' = NoResult
            /\ UNCHANGED session
            /\ IF browser # None /\ ~isConnected(browser)
                    /\ NeedsSession(inp.name)
                 THEN pc' = "close_precheck" /\ tb' = browser
                 ELSE /\ tb' = None
                      /\ pc' = IF NeedsSession(inp.name)
                                 THEN "e_start" ELSE "route"

\* where control goes once `await browser.close()` has settled; every site
\* calls resetBrowserState() next
AfterClose(site) ==
  CASE site = "close_tool" -> "returned"
    [] site = "close_precheck" -> "e_start"
    [] site = "close_step1" -> "e_launchq"
    [] site = "close_type" -> "launch"
    [] site = "close_catch" -> "launch"

\* `await browser.close().catch(...)` settles.  A close that succeeds on a
\* connected browser disconnects it and its 'disconnected' event reaches the
\* listener before close() resolves; a failed close, or a close of a browser
\* that is already disconnected, changes nothing.  Then resetBrowserState().
BrowserCloseSettles(ok) ==
  /\ UNCHANGED pageSide
  /\ pc \in ClosePcs
  /\ IF ok /\ isConnected(tb)
       THEN /\ bConnected' = [bConnected EXCEPT ![tb] = FALSE]
            /\ bHasContext' = ContextsAfterLoss(tb)
            /\ pClosed' = PagesClosedAfterLoss(tb)
            /\ pArmed' = PagesArmedAfterLoss(tb)
       ELSE UNCHANGED <<bConnected, bHasContext, pClosed, pArmed>>
  /\ resetBrowserState
  /\ pc' = AfterClose(pc)
  /\ tb' = None
  /\ launchesInCall' = IF AfterClose(pc) = "launch"
                         THEN launchesInCall + 1 ELSE launchesInCall
  /\ result' = IF pc = "close_tool"
                 THEN [kind |-> "ok",
                       text |-> <<"Browser closed successfully">>]
                 ELSE result
  /\ UNCHANGED <<autoAnnotationEnabled, nBrowsers, pendingDisc, nPages,
                 pBrowser, call, phase, tp, ctxPage, ctxBrowser,
                 ensureOutcome, handlerRan, heldAtStart, lostAtStart>>

\* ------------------------------------------------------------ ensureBrowser
\* phase: "first" = the try block's launch block, "verify" = the try block's
\* page validity block, "retry" = the catch block's second attempt

\* variant: the catch block's own failures are retried as well
ThrowTarget_AlwaysCatch(ph) == "catch"

\* where a throw inside ensureBrowser goes: the try block's catch, or, from
\* the catch block, out to the caller
ThrowTarget(ph) == IF ph = "retry" THEN "e_throw" ELSE "catch"

\* where control goes after the page's console/annotation setup
AfterSetup(ph) == IF ph = "first" THEN "verify" ELSE "e_return"

\* variant: a call that carries settings launches anew
NeedsLaunch_OnSettings == browser = None \/ call.settings # NoSettings

\* variant: launch on every call
NeedsLaunch_Always == TRUE

\* `if (!browser)`: the launch block is entered only without a handle
NeedsLaunch == browser = None

\* `if (browser && currentBrowserType !== browserType)`, evaluated inside
\* the launch block
TypeChangeTeardown ==
  browser # None /\ currentBrowserType # RequestedType(call)

\* ensureBrowser entry: `if (browser && !browser.isConnected())`
EnsureStart ==
  /\ UNCHANGED pageSide
  /\ pc = "e_start"
  /\ phase' = "first"
  /\ IF browser # None /\ ~isConnected(browser)
       THEN pc' = "close_step1" /\ tb' = browser
       ELSE pc' = "e_launchq" /\ tb' = None
  /\ UNCHANGED <<session, autoAnnotationEnabled, browsers, pages, call, tp,
                 ctxPage, ctxBrowser, result, observed>>

\* `if (!browser) { ... }`: launch, or go on to the page validity check
EnsureLaunchDecision ==
  /\ UNCHANGED pageSide
  /\ pc = "e_launchq"
  /\ IF NeedsLaunch
       THEN IF TypeChangeTeardown
              THEN /\ pc' = "close_type"
                   /\ tb' = browser
                   /\ UNCHANGED launchesInCall
              ELSE /\ pc' = "launch"
                   /\ tb' = None
                   /\ launchesInCall' = launchesInCall + 1
       ELSE /\ pc' = "verify"
            /\ tb' = None
            /\ UNCHANGED launchesInCall
  /\ UNCHANGED <<session, autoAnnotationEnabled, browsers, pages, call,
                 phase, tp, ctxPage, ctxBrowser, result, ensureOutcome,
                 handlerRan, heldAtStart, lostAtStart>>

\* `browser = await browserInstance.launch(...)` settles; on success the
\* engine variant is recorded, the 'disconnected' listener is registered and
\* browser.newContext(...) is issued
LaunchOutcome(ok) ==
  /\ pc = "launch"
  /\ IF ok
       THEN /\ nBrowsers < MaxBrowsers
            /\ nBrowsers' = nBrowsers + 1
            /\ browser' = nBrowsers + 1
            /\ bConnected' = [bConnected EXCEPT ![nBrowsers + 1] = TRUE]
            /\ currentBrowserType' = RequestedType(call)
            /\ tb' = nBrowsers + 1
            /\ pc' = "newContext"
            /\ UNCHANGED page
       ELSE /\ pc' = ThrowTarget(phase)
            /\ tb' = None
            /\ UNCHANGED <<session, nBrowsers, bConnected>>
  /\ UNCHANGED <<autoAnnotationEnabled, bHasContext, pendingDisc, pages,
                 call, phase, tp, ctxPage, ctxBrowser, result, observed>>

LaunchSettles(ok) ==
  /\ UNCHANGED pageSide
  /\ LaunchOutcome(ok)

\* what the settling of `await browser.newContext(...)` does to the tool side
NewContextOutcome(ok) ==
  /\ pc = "newContext"
  /\ IF ok
       THEN /\ isConnected(tb)
            /\ bHasContext' = [bHasContext EXCEPT ![tb] = TRUE]
            /\ pc' = "newPage"
            /\ UNCHANGED tb
       ELSE /\ pc' = ThrowTarget(phase)
            /\ tb' = None
            /\ UNCHANGED bHasContext
  /\ UNCHANGED <<session, autoAnnotationEnabled, nBrowsers, bConnected,
                 pendingDisc, pages, call, phase, tp, ctxPage,
                 ctxBrowser, result, observed>>

\* `await browser.newContext(...)` settles; then context.newPage() is issued
NewContextSettles(ok) ==
  /\ UNCHANGED pageSide
  /\ NewContextOutcome(ok)

\* `page = await context.newPage()` settles; then
\* registerConsoleMessage(page) is issued
NewPageSettles(ok) ==
  /\ UNCHANGED pageSide
  /\ pc = "newPage"
  /\ IF ok
       THEN /\ isConnected(tb)
            /\ nPages < MaxPages
            /\ nPages' = nPages + 1
            /\ pBrowser' = [pBrowser EXCEPT ![nPages + 1] = tb]
            /\ page' = nPages + 1
            /\ tp' = nPages + 1
            /\ pc' = "console"
       ELSE /\ pc' = ThrowTarget(phase)
            /\ tp' = None
            /\ UNCHANGED <<page, nPages, pBrowser>>
  /\ tb' = None
  /\ UNCHANGED <<browser, currentBrowserType, autoAnnotationEnabled,
                 browsers, pClosed, pArmed, call, phase, ctxPage,
                 ctxBrowser, result, observed>>

\* `await registerConsoleMessage(page)` settles; then
\* `if (autoAnnotationEnabled) await setupAutoAnnotation(page)` reads the
\* module-level page again
ConsoleSettles(ok) ==
  /\ UNCHANGED pageSide
  /\ pc = "console"
  /\ IF ok
       THEN /\ ~isClosed(tp)
            /\ IF autoAnnotationEnabled
                 THEN IF page = None
                        THEN pc' = ThrowTarget(phase) /\ tp' = None
                        ELSE pc' = "arm" /\ tp' = page
                 ELSE pc' = AfterSetup(phase) /\ tp' = None
       ELSE pc' = ThrowTarget(phase) /\ tp' = None
  /\ UNCHANGED <<session, autoAnnotationEnabled, browsers, pages, call,
                 phase, tb, ctxPage, ctxBrowser, result, observed>>

\* `await page.addInitScript(getAutoAnnotationInitScript())` settles
ArmSettles(ok) ==
  /\ UNCHANGED pageSide
  /\ pc = "arm"
  /\ IF ok
       THEN /\ ~isClosed(tp)
            /\ pArmed' = [pArmed EXCEPT ![tp] = TRUE]
            /\ pc' = AfterSetup(phase)
       ELSE /\ pc' = ThrowTarget(phase)
            /\ UNCHANGED pArmed
  /\ tp' = None
  /\ UNCHANGED <<session, autoAnnotationEnabled, browsers, nPages, pBrowser,
                 pClosed, call, phase, tb, ctxPage, ctxBrowser, result,
                 observed>>

\* `if (!page || page.isClosed())`: open a fresh page in
\* browser.contexts()[0], or in a new context when there is none
VerifyPage ==
  /\ UNCHANGED pageSide
  /\ pc = "verify"
  /\ IF page = None \/ isClosed(page)
       THEN IF browser = None
              THEN pc' = ThrowTarget(phase) /\ UNCHANGED <<phase, tb>>
              ELSE /\ phase' = "verify"
                   /\ tb' = browser
                   /\ pc' = IF bHasContext[browser]
                              THEN "newPage" ELSE "newContext"
       ELSE pc' = "e_return" /\ UNCHANGED <<phase, tb>>
  /\ UNCHANGED <<session, autoAnnotationEnabled, browsers, pages, call, tp,
                 ctxPage, ctxBrowser, result, observed>>

\* catch block: `if (browser) await browser.close()`, resetBrowserState(),
\* then the second launch
CatchCleanup ==
  /\ UNCHANGED pageSide
  /\ pc = "catch"
  /\ phase' = "retry"
  /\ IF browser # None
       THEN /\ pc' = "close_catch"
            /\ tb' = browser
            /\ UNCHANGED <<session, launchesInCall>>
       ELSE /\ resetBrowserState
            /\ pc' = "launch"
            /\ tb' = None
            /\ launchesInCall' = launchesInCall + 1
  /\ UNCHANGED <<autoAnnotationEnabled, browsers, pages, call, tp, ctxPage,
                 ctxBrowser, result, ensureOutcome,
                 handlerRan, heldAtStart, lostAtStart>>


\* ------------------------------------------------- dispatcher, after setup
\* `return page!`, then in handleToolCall `context.page = await
\* ensureBrowser(...)` and `context.browser = browser`
EnsureReturns ==
  /\ UNCHANGED pageSide
  /\ pc = "e_return"
  /\ ensureOutcome' = "ok"
  /\ ctxPage' = page
  /\ ctxBrowser' = browser
  /\ pc' = "route"
  /\ UNCHANGED <<session, autoAnnotationEnabled, browsers, pages, call,
                 phase, tb, tp, result, launchesInCall, handlerRan,
                 heldAtStart, lostAtStart>>

\* variant: the inner catch logs and falls through to the switch
AfterInitFailure_FallThrough == "route"

\* where handleToolCall goes when ensureBrowser threw: its inner catch
\* returns the failure result
AfterInitFailure == "returned"

\* ensureBrowser throws out of its catch block; handleToolCall answers
\* "Failed to initialize browser: ... Please try again."
EnsureThrows ==
  /\ UNCHANGED pageSide
  /\ pc = "e_throw"
  /\ ensureOutcome' = "threw"
  /\ result' = [kind |-> "err_init",
                text |-> <<"Failed to initialize browser: ">>]
  /\ pc' = AfterInitFailure
  /\ UNCHANGED <<session, autoAnnotationEnabled, browsers, pages, call,
                 locals, launchesInCall, handlerRan,
                 heldAtStart, lostAtStart>>

\* the switch of handleToolCall
RouteToTool ==
  /\ UNCHANGED pageSide
  /\ pc = "route"
  /\ IF call.name = "playwright_set_auto_annotation"
       THEN /\ autoAnnotationEnabled' = call.enabled
            /\ result' = [kind |-> "ok",
                          text |-> <<"Auto-annotation ">>]
            /\ pc' = "returned"
            /\ UNCHANGED handlerRan
       ELSE IF call.name \in RoutedTools
              THEN /\ pc' = "handler"
                   /\ handlerRan' = TRUE
                   /\ UNCHANGED <<autoAnnotationEnabled, result>>
              ELSE /\ result' = [kind |-> "err",
                                 text |-> <<"Unknown tool: ">>]
                   /\ pc' = "returned"
                   /\ UNCHANGED <<autoAnnotationEnabled, handlerRan>>
  /\ UNCHANGED <<session, browsers, pages, call, locals, launchesInCall,
                 ensureOutcome, heldAtStart, lostAtStart>>

\* the tool's execute() resolves with a result object
HandlerReturns(isError) ==
  /\ UNCHANGED pageSide
  /\ pc = "handler"
  /\ result' = [kind |-> IF isError THEN "err" ELSE "ok",
                text |-> <<"tool result">>]
  /\ pc' = "returned"
  /\ UNCHANGED <<session, autoAnnotationEnabled, browsers, pages, call,
                 locals, observed>>

\* variant: every message is taken for a connection loss
IsConnectionLoss_Any(msg) == TRUE

\* one of the five `errorMessage.includes(...)` tests succeeds
IsConnectionLoss(msg) ==
  \E pat \in ConnectionLossPatterns : Includes(msg, pat)

\* String(error) for a thrown value that is not an Error
StringOf(v) == IF v.kind = "undefined" THEN <<"undefined">> ELSE v.message

\* the catch block of handleToolCall applied to thrown value v:
\* `(error as Error).message` fails on undefined, `.includes` fails on a
\* value without a message; kind "thrown" is an exception leaving
\* handleToolCall
DispatchCatch(name, v) ==
  IF name \in BROWSER_TOOLS
    THEN IF v.kind # "Error"
           THEN [kind |-> "thrown", reset |-> FALSE, text |-> <<"TypeError">>]
           ELSE IF IsConnectionLoss(v.message)
                  THEN [kind |-> "err_reset", reset |-> TRUE,
                        text |-> <<"Browser connection error: ">>
                                   \o v.message
                                   \o <<". Browser state has been reset, please try again.">>]
                  ELSE [kind |-> "err", reset |-> FALSE, text |-> v.message]
    ELSE [kind |-> "err", reset |-> FALSE,
          text |-> IF v.kind = "Error" THEN v.message ELSE StringOf(v)]

\* the tool's execute() rejects with v
HandlerThrows(v) ==
  /\ UNCHANGED pageSide
  /\ pc = "handler"
  /\ LET o == DispatchCatch(call.name, v) IN
       /\ IF o.reset THEN resetBrowserState ELSE UNCHANGED session
       /\ result' = [kind |-> o.kind, text |-> o.text]
  /\ pc' = "returned"
  /\ UNCHANGED <<autoAnnotationEnabled, browsers, pages, call, locals,
                 observed>>

\* the caller takes the result; the next call may start
Deliver ==
  /\ UNCHANGED pageSide
  /\ pc = "returned"
  /\ pc' = "idle"
  /\ call' = NoArgs
  /\ phase' = "none"
  /\ tb' = None
  /\ tp' = None
  /\ ctxPage' = None
  /\ ctxBrowser' = None
  /\ result' = NoResult
  /\ launchesInCall' = 0
  /\ ensureOutcome' = "none"
  /\ handlerRan' = FALSE
  /\ heldAtStart' = None
  /\ lostAtStart' = FALSE
  /\ UNCHANGED <<session, autoAnnotationEnabled, browsers, pages>>

Next ==
  \/ \E inp \in CallInputs : HandleToolCall(inp)
  \/ \E ok \in BOOLEAN : BrowserCloseSettles(ok)
  \/ EnsureStart
  \/ EnsureLaunchDecision
  \/ \E ok \in BOOLEAN : LaunchSettles(ok)
  \/ \E ok \in BOOLEAN : NewContextSettles(ok)
  \/ \E ok \in BOOLEAN : NewPageSettles(ok)
  \/ \E ok \in BOOLEAN : ConsoleSettles(ok)
  \/ \E ok \in BOOLEAN : ArmSettles(ok)
  \/ VerifyPage
  \/ CatchCleanup
  \/ EnsureReturns
  \/ EnsureThrows
  \/ RouteToTool
  \/ \E e \in BOOLEAN : HandlerReturns(e)
  \/ \E v \in ThrownValues : HandlerThrows(v)
  \/ Deliver
  \/ \E b \in BrowserIds : BrowserDisconnect(b)
  \/ \E b \in BrowserIds : DisconnectedListener(b)
  \/ \E p \in PageIds : PageClose(p)

Spec == Init /\ [][Next]_vars

\* ------------------------------------------------- auto-annotation script
\* The script returned by getAutoAnnotationInitScript, as it runs in the
\* document of a page the Session hands to tools.  Each execution of the
\* script is an instance with its own debounceTimer and its own scroll,
\* resize and mutation listeners.  The tool side does not step here.
toolSide == <<session, browsers, pages, pc, call, locals, result, observed>>

InitDebounce ==
  /\ ToolSideInit
  /\ autoAnnotationEnabled \in BOOLEAN
  /\ initScriptAdded \in BOOLEAN
  /\ scriptInstances = 0
  /\ debounceTimer = [i \in InstanceIds |-> NoTimer]
  /\ hasTargets = FALSE
  /\ mutationPending = FALSE
  /\ burst = 0
  /\ gap = 0
  /\ rescans = 0
  /\ earlyScan = FALSE
  /\ ScanSideIdle
  /\ TabSideIdle
  /\ LaunchSideIdle

\* instances in a document that has just loaded: the init script runs once
\* when addInitScript was called for the page
InstancesAfterLoad == IF initScriptAdded THEN 1 ELSE 0

\* `page.evaluate(getAutoAnnotationInitScript())`: one more instance
InstancesAfterEvaluate(n) == n + 1

\* a new document replaces the old one: its timers and listeners are gone
FreshDocument ==
  /\ debounceTimer' = [i \in InstanceIds |-> NoTimer]
  /\ mutationPending' = FALSE
  /\ hasTargets' \in BOOLEAN
  /\ burst' = 0
  /\ gap' = 0
  /\ rescans' = 0
  /\ earlyScan' = FALSE

\* debouncedAnnotate() in every instance: clearTimeout, then setTimeout
AllDebounced ==
  [i \in InstanceIds |->
     IF i <= scriptInstances
       THEN [set |-> TRUE, due |-> DebounceTicks] ELSE NoTimer]

\* NavigationTool.execute: page.goto, then the script is evaluated again
\* when auto-annotation is enabled
NavigateTool ==
  /\ UNCHANGED <<scanSide, tabSide, launchSide>>
  /\ mutationPending = FALSE
  /\ LET n == IF autoAnnotationEnabled
                THEN InstancesAfterEvaluate(InstancesAfterLoad)
                ELSE InstancesAfterLoad
     IN /\ n <= MaxInstances
        /\ scriptInstances' = n
  /\ FreshDocument
  /\ UNCHANGED <<toolSide, autoAnnotationEnabled, initScriptAdded>>

\* GoBackTool / GoForwardTool: page.goBack() or page.goForward() loads
\* another document (moved) or resolves without navigating; then the script
\* is evaluated again when auto-annotation is enabled.  Events seen before
\* the tool ran are not counted into a burst that follows it.
HistoryTool(moved) ==
  /\ UNCHANGED <<scanSide, tabSide, launchSide>>
  /\ mutationPending = FALSE
  /\ LET base == IF moved THEN InstancesAfterLoad ELSE scriptInstances
         n == IF autoAnnotationEnabled
                THEN InstancesAfterEvaluate(base) ELSE base
     IN /\ n <= MaxInstances
        /\ scriptInstances' = n
        /\ IF moved
             THEN FreshDocument
             ELSE /\ UNCHANGED <<debounceTimer, mutationPending,
                                 hasTargets>>
                  /\ burst' = 0
                  /\ gap' = 0
                  /\ rescans' = 0
                  /\ earlyScan' = FALSE
  /\ UNCHANGED <<toolSide, autoAnnotationEnabled, initScriptAdded>>

\* playwright_set_auto_annotation
SetAutoAnnotation(enabled) ==
  /\ mutationPending = FALSE
  /\ autoAnnotationEnabled' = enabled
  /\ UNCHANGED <<toolSide, pageSide>>

\* a scroll, a resize or a DOM mutation made by the page: every instance
\* restarts its timer.  The event continues the burst when it comes less
\* than the debounce delay after the previous one, else it starts a burst.
TriggerEvent ==
  /\ UNCHANGED <<scanSide, tabSide, launchSide>>
  /\ mutationPending = FALSE
  /\ \A i \in InstanceIds :
        ~(debounceTimer[i].set /\ debounceTimer[i].due = 0)
  /\ debounceTimer' = AllDebounced
  /\ IF burst > 0 /\ gap < DebounceTicks
       THEN /\ burst < MaxBurst
            /\ burst' = burst + 1
            /\ earlyScan' = (earlyScan \/ rescans > 0)
            /\ UNCHANGED rescans
       ELSE /\ burst' = 1
            /\ rescans' = 0
            /\ earlyScan' = FALSE
  /\ gap' = 0
  /\ UNCHANGED <<toolSide, autoAnnotationEnabled, initScriptAdded,
                 scriptInstances, hasTargets, mutationPending>>

\* 100 ms pass; a timer that is due fires before time moves on
Tick ==
  /\ UNCHANGED <<scanSide, tabSide, launchSide>>
  /\ mutationPending = FALSE
  /\ \A i \in InstanceIds :
        ~(debounceTimer[i].set /\ debounceTimer[i].due = 0)
  /\ gap <= DebounceTicks
  /\ gap' = gap + 1
  /\ debounceTimer' =
       [i \in InstanceIds |->
          IF debounceTimer[i].set
            THEN [set |-> TRUE, due |-> debounceTimer[i].due - 1]
            ELSE NoTimer]
  /\ UNCHANGED <<toolSide, autoAnnotationEnabled, initScriptAdded,
                 scriptInstances, hasTargets, mutationPending, burst,
                 rescans, earlyScan>>

\* the timer of instance i fires: annotateElements() runs.  Timers due at
\* the same time fire in the order they were set.  When the scan finds
\* elements it inserts overlay nodes into document.body, which the
\* MutationObservers report after the timer callback.
TimerFires(i) ==
  /\ UNCHANGED <<scanSide, tabSide, launchSide>>
  /\ mutationPending = FALSE
  /\ i <= scriptInstances
  /\ debounceTimer[i].set /\ debounceTimer[i].due = 0
  /\ \A j \in 1..(i - 1) :
        ~(debounceTimer[j].set /\ debounceTimer[j].due = 0)
  /\ debounceTimer' = [debounceTimer EXCEPT ![i] = NoTimer]
  /\ rescans' = rescans + 1
  /\ mutationPending' = hasTargets
  /\ UNCHANGED <<toolSide, autoAnnotationEnabled, initScriptAdded,
                 scriptInstances, hasTargets, burst, gap, earlyScan>>

\* the MutationObserver callbacks for the overlay nodes run: this is a
\* trigger event made by the scan itself, and it starts a burst
MutationDelivered ==
  /\ UNCHANGED <<scanSide, tabSide, launchSide>>
  /\ mutationPending
  /\ mutationPending' = FALSE
  /\ debounceTimer' = AllDebounced
  /\ burst' = 1
  /\ gap' = 0
  /\ rescans' = 0
  /\ earlyScan' = FALSE
  /\ UNCHANGED <<toolSide, autoAnnotationEnabled, initScriptAdded,
                 scriptInstances, hasTargets>>

NextDebounce ==
  \/ NavigateTool
  \/ \E moved \in BOOLEAN : HistoryTool(moved)
  \/ \E enabled \in BOOLEAN : SetAutoAnnotation(enabled)
  \/ TriggerEvent
  \/ Tick
  \/ \E i \in InstanceIds : TimerFires(i)
  \/ MutationDelivered

SpecDebounce == InitDebounce /\ [][NextDebounce]_vars

\* ------------------------------------------------------- annotation scan
\* The scan of getAnnotationScript and of annotateElements in the init
\* script (the two carry the same selectors, filters and classification),
\* and the tools that run it.  A document is a flat list of elements in
\* document order; an element carries its tag, the attributes and computed
\* style the scan reads, and its getBoundingClientRect box in whole pixels.
MaxElements == 3

\* rect.width < 10 || rect.height < 10
MinSize == 10

\* window.innerWidth, window.innerHeight
Viewport == [innerWidth |-> 100, innerHeight |-> 80]

Box(l, t, w, h) == [left |-> l, top |-> t, width |-> w, height |-> h]
right(rect) == rect.left + rect.width
bottom(rect) == rect.top + rect.height

Css(d, v, o, c) ==
  [display |-> d, visibility |-> v, opacity |-> o, cursor |-> c]
Shown == Css("block", "visible", "1", "auto")

Element(tag, attrs, css, rect) ==
  [tagName |-> tag, attrs |-> attrs, style |-> css, rect |-> rect]

\* the pages the scan is run on are built from these elements
Button50x20     == Element("button", {}, Shown, Box(10, 10, 50, 20))
LinkDisplayNone ==
  Element("a", {"href"}, Css("none", "visible", "1", "auto"),
          Box(0, 0, 0, 0))
IconSpan5x5     == Element("span", {"onclick"}, Shown, Box(10, 40, 5, 5))
ElementKinds ==
  { Button50x20, LinkDisplayNone, IconSpan5x5,
    Element("button", {}, Css("block", "hidden", "1", "auto"),
            Box(10, 10, 50, 20)),
    Element("a", {"href"}, Css("block", "visible", "0", "auto"),
            Box(10, 10, 50, 20)),
    Element("input", {}, Shown, Box(10, 10, MinSize, MinSize)),
    \* above the viewport
    Element("a", {"href"}, Shown, Box(10, -21, 50, 20)),
    \* touching the bottom edge of the viewport from outside
    Element("button", {}, Shown, Box(10, Viewport.innerHeight, 50, 20)),
    \* no selector matches, cursor:pointer
    Element("div", {}, Css("block", "visible", "1", "pointer"),
            Box(60, 40, 31, 30)) }

\* the selector list, as far as it can match an element without class
SelectorTags == {"button", "select", "textarea", "summary"}
SelectorAttrs == {"onclick", "ng-click", "role=button", "role=link"}
MatchesSelector(e) ==
  \/ e.tagName = "a" /\ "href" \in e.attrs
  \/ e.tagName \in SelectorTags
  \/ e.tagName = "input" /\ "type=hidden" \notin e.attrs
  \/ e.tagName = "label" /\ "for" \in e.attrs
  \/ e.attrs \cap SelectorAttrs # {}

\* the Set of elements in insertion order, as positions in the document:
\* querySelectorAll(selectors) in document order, then the elements with
\* cursor:pointer that are not in the set (a flat document has no ancestor
\* in the set)
Positions(d) == [n \in 1..Len(d) |-> n]
BySelector(d) == SelectSeq(Positions(d), LAMBDA n : MatchesSelector(d[n]))
ByCursor(d) ==
  SelectSeq(Positions(d),
            LAMBDA n : d[n].style.cursor = "pointer"
                       /\ ~MatchesSelector(d[n]))
Candidates(d) == BySelector(d) \o ByCursor(d)

\* "Skip hidden elements"
SkipHidden(e) ==
  \/ e.rect.width = 0
  \/ e.rect.height = 0
  \/ e.style.display = "none"
  \/ e.style.visibility = "hidden"
  \/ e.style.opacity = "0"

\* "Skip elements outside viewport"
SkipOutsideViewport(rect) ==
  \/ bottom(rect) < 0
  \/ rect.top > Viewport.innerHeight
  \/ right(rect) < 0
  \/ rect.left > Viewport.innerWidth

\* "Skip very small elements"
SkipSmall(rect) == rect.width < MinSize \/ rect.height < MinSize

\* the elements of the set that get an overlay and a result, in order
AnnotatedNodes(d) ==
  SelectSeq(Candidates(d),
            LAMBDA n : /\ ~SkipHidden(d[n])
                       /\ ~SkipOutsideViewport(d[n].rect)
                       /\ ~SkipSmall(d[n].rect))

\* "Determine element type"
InputType(e) ==
  IF "type=submit" \in e.attrs \/ "type=button" \in e.attrs THEN "submit"
  ELSE IF "type=checkbox" \in e.attrs THEN "checkbox"
  ELSE IF "type=radio" \in e.attrs THEN "radio"
  ELSE IF "type=file" \in e.attrs THEN "file"
  ELSE "input"
ElementType(e) ==
  IF e.tagName = "a" THEN "link"
  ELSE IF e.tagName = "button" \/ "role=button" \in e.attrs THEN "button"
  ELSE IF e.tagName = "input" THEN InputType(e)
  ELSE IF e.tagName \in {"select", "textarea", "form"} THEN e.tagName
  ELSE "clickable"

\* variant: the counter also advances for a candidate the filters drop
AnnotationScan_IndexPerCandidate(d) ==
  LET nodes == AnnotatedNodes(d)
      c == Candidates(d)
  IN [k \in 1..Len(nodes) |->
        [index |-> (CHOOSE j \in 1..Len(c) : c[j] = nodes[k]) - 1,
         type |-> ElementType(d[nodes[k]]),
         tagName |-> d[nodes[k]].tagName,
         boundingBox |-> [x |-> d[nodes[k]].rect.left,
                          y |-> d[nodes[k]].rect.top,
                          width |-> d[nodes[k]].rect.width,
                          height |-> d[nodes[k]].rect.height]]]

\* results: one AnnotatedElement per annotated node, index counting from 0
AnnotationScan(d) ==
  LET nodes == AnnotatedNodes(d)
  IN [k \in 1..Len(nodes) |->
        [index |-> k - 1,
         type |-> ElementType(d[nodes[k]]),
         tagName |-> d[nodes[k]].tagName,
         boundingBox |-> [x |-> d[nodes[k]].rect.left,
                          y |-> d[nodes[k]].rect.top,
                          width |-> d[nodes[k]].rect.width,
                          height |-> d[nodes[k]].rect.height]]]

\* the overlay nodes the scan appends to document.body, in order: for each
\* result a box and then a label, both of class
\* playwright-element-annotation; a node names what it is and the element
\* it marks
OverlaysOfScan(d) ==
  LET nodes == AnnotatedNodes(d)
  IN [k \in 1..(2 * Len(nodes)) |->
        IF k % 2 = 1 THEN <<"box", nodes[(k + 1) \div 2]>>
                     ELSE <<"label", nodes[k \div 2]>>]

\* variant: the nodes of earlier passes stay in the document
RemoveExisting_KeepAll(nodes) == nodes

\* "Remove existing annotations": what is left of the overlay nodes after
\* querySelectorAll('.playwright-element-annotation').forEach(el.remove)
RemoveExisting(nodes) == <<>>

\* the overlay nodes after a pass over document d
OverlaysAfterPass(before, d) == RemoveExisting(before) \o OverlaysOfScan(d)

\* the Session holds a connected browser and an open page, no call in flight
SessionReady ==
  /\ browser = 1
  /\ page = 1
  /\ currentBrowserType = DefaultBrowserType
  /\ nBrowsers = 1
  /\ bConnected = [b \in BrowserIds |-> b = 1]
  /\ bHasContext = [b \in BrowserIds |-> b = 1]
  /\ pendingDisc = {}
  /\ nPages = 1
  /\ pBrowser = [p \in PageIds |-> IF p = 1 THEN 1 ELSE None]
  /\ pClosed = [p \in PageIds |-> FALSE]
  /\ pArmed = [p \in PageIds |-> FALSE]
  /\ pc = "idle"
  /\ call = NoArgs
  /\ phase = "none"
  /\ tb = None
  /\ tp = None
  /\ ctxPage = None
  /\ ctxBrowser = None
  /\ result = NoResult
  /\ launchesInCall = 0
  /\ ensureOutcome = "none"
  /\ handlerRan = FALSE
  /\ heldAtStart = None
  /\ lostAtStart = FALSE

InitAnnotate ==
  /\ SessionReady
  /\ autoAnnotationEnabled = TRUE
  /\ initScriptAdded = TRUE
  /\ scriptInstances = InstancesAfterLoad
  /\ debounceTimer = [i \in InstanceIds |-> NoTimer]
  /\ hasTargets = FALSE
  /\ mutationPending = FALSE
  /\ burst = 0
  /\ gap = 0
  /\ rescans = 0
  /\ earlyScan = FALSE
  /\ ScanSideIdle
  /\ TabSideIdle
  /\ LaunchSideIdle

\* the tools of this section do not assign the Session and start no timer
AnnotateFrame ==
  UNCHANGED <<toolSide, autoAnnotationEnabled, document, burstObserved,
              tabSide, launchSide>>

\* the page as it loads: one more element.  The page is still while the
\* tools work on it.
PageAddsElement(e) ==
  /\ Len(dom) < MaxElements
  /\ annotatedElements = <<>>
  /\ overlays = <<>>
  /\ response = NoResponse
  /\ dom' = Append(dom, e)
  /\ UNCHANGED <<annotatedElements, overlays, response, pageOps>>
  /\ AnnotateFrame

\* annotateElements() of an init-script instance: removes the overlays,
\* scans, draws, and stores the results in the page-global cache
annotateElementsPass ==
  /\ scriptInstances >= 1
  /\ annotatedElements' = AnnotationScan(dom)
  /\ overlays' = OverlaysAfterPass(overlays, dom)
  /\ UNCHANGED <<dom, response>>
  /\ AnnotateFrame

annotateElements ==
  /\ annotateElementsPass
  /\ UNCHANGED pageOps

\* AnnotateElementsTool.execute: page.evaluate(getAnnotationScript())
AnnotateElementsTool ==
  /\ overlays' = OverlaysAfterPass(overlays, dom)
  /\ response' = [NoResponse EXCEPT !.kind = "annotated",
                                    !.elements = AnnotationScan(dom)]
  /\ pageOps' = <<"annotate">>
  /\ UNCHANGED <<dom, annotatedElements>>
  /\ AnnotateFrame

\* RemoveAnnotationsTool.execute
RemoveAnnotationsTool ==
  /\ overlays' = <<>>
  /\ response' = [NoResponse EXCEPT !.kind = "removed"]
  /\ pageOps' = <<"remove">>
  /\ UNCHANGED <<dom, annotatedElements>>
  /\ AnnotateFrame

\* variant: an index past the list falls back to the last element
FindByIndex_Clamped(elements, index) ==
  {k \in 1..Len(elements) :
     \/ elements[k].index = index
     \/ index >= Len(elements) /\ k = Len(elements)}

\* elements.find(el => el.index === index)
FindByIndex(elements, index) ==
  {k \in 1..Len(elements) : elements[k].index = index}

\* variant: the fallback scan runs whatever the cache holds
NeedsScan_Always(cached) == TRUE

\* `if (elements.length === 0)`: the cached list is empty
NeedsScan(cached) == Len(cached) = 0

\* element.boundingBox.x + element.boundingBox.width / 2, doubled
Center2(bb) == [x2 |-> 2 * bb.x + bb.width, y2 |-> 2 * bb.y + bb.height]

\* Math.round(n2 / 2): the nearest integer, a half rounds up
MathRoundHalf(n2) == (n2 + 1) \div 2

\* ClickByIndexTool.execute with a number as index
ClickByIndexTool(index) ==
  LET fresh == NeedsScan(annotatedElements)
      elements == IF fresh THEN AnnotationScan(dom) ELSE annotatedElements
      scanned == IF fresh THEN <<"cache", "annotate">> ELSE <<"cache">>
      found == FindByIndex(elements, index)
      element == elements[CHOOSE k \in found : \A j \in found : k <= j]
  IN /\ IF found = {}
          THEN /\ response' =
                    [NoResponse EXCEPT !.kind = "not_found",
                                       !.isError = TRUE,
                                       !.index = index,
                                       !.last = Len(elements) - 1]
               /\ overlays' =
                    IF fresh THEN OverlaysAfterPass(overlays, dom)
                             ELSE overlays
               /\ pageOps' = scanned
          ELSE /\ response' =
                    [NoResponse EXCEPT
                       !.kind = "clicked",
                       !.index = index,
                       !.point = Center2(element.boundingBox),
                       !.reported =
                          [x |-> MathRoundHalf(
                                   Center2(element.boundingBox).x2),
                           y |-> MathRoundHalf(
                                   Center2(element.boundingBox).y2)]]
               /\ overlays' = <<>>
               /\ pageOps' = scanned \o <<"remove", "mouse.click">>
     /\ UNCHANGED <<dom, annotatedElements>>
     /\ AnnotateFrame

\* ClickByIndexTool.execute when typeof index is not 'number'
ClickByIndexNoNumber ==
  /\ response' = [NoResponse EXCEPT !.kind = "index_required",
                                    !.isError = TRUE]
  /\ pageOps' = <<>>
  /\ UNCHANGED <<dom, annotatedElements, overlays>>
  /\ AnnotateFrame

ClickIndexes == 0..MaxElements

NextAnnotate ==
  \/ \E e \in ElementKinds : PageAddsElement(e)
  \/ annotateElements
  \/ AnnotateElementsTool
  \/ RemoveAnnotationsTool
  \/ \E index \in ClickIndexes : ClickByIndexTool(index)
  \/ ClickByIndexNoNumber

SpecAnnotate == InitAnnotate /\ [][NextAnnotate]_vars

\* --------------------------------------------- the compact export and back
\* `case "playwright_get_annotated_elements"` of handleToolCall, on a page
\* that goes on changing; a response of kind "exported" carries the compact
\* list (the optional text, href and placeholder are left out)
\* variant: the entries are numbered by position, from 1
CompactElements_Renumbered(elements) ==
  [k \in 1..Len(elements) |-> [i |-> k, t |-> elements[k].type]]

\* elements.map(el => ({ i: el.index, t: el.type, ... }))
CompactElements(elements) ==
  [k \in 1..Len(elements) |->
     [i |-> elements[k].index, t |-> elements[k].type]]

\* reads window.__playwrightAnnotatedElements || [] and maps it
GetAnnotatedElements ==
  /\ response' = [NoResponse EXCEPT
                    !.kind = "exported",
                    !.elements = CompactElements(annotatedElements)]
  /\ pageOps' = <<"cache">>
  /\ UNCHANGED <<dom, annotatedElements, overlays>>
  /\ AnnotateFrame

\* the elements the changing page is built from: two that the scan keeps,
\* with different centers, and one it skips
LinkOddBox == Element("a", {"href"}, Shown, Box(70, 10, 31, 30))
ExportKinds == { Button50x20, LinkOddBox, LinkDisplayNone }

\* the page puts an element in front of the others, at any time
PageInsertsElement(e) ==
  /\ Len(dom) < MaxElements
  /\ dom' = <<e>> \o dom
  /\ UNCHANGED <<annotatedElements, overlays, response, pageOps>>
  /\ AnnotateFrame

\* annotateElements() of the init script, noted in pageOps after what the
\* last tool did
annotateElementsAfterTool ==
  /\ annotateElementsPass
  /\ pageOps' = IF \E k \in 1..Len(pageOps) : pageOps[k] = "annotateElements"
                  THEN pageOps
                  ELSE Append(pageOps, "annotateElements")

NextExport ==
  \/ \E e \in ExportKinds : PageInsertsElement(e)
  \/ annotateElementsAfterTool
  \/ GetAnnotatedElements
  \/ \E index \in ClickIndexes : ClickByIndexTool(index)

SpecExport == InitAnnotate /\ [][NextExport]_vars

\* ------------------------------------- click_by_index and the page's timers
\* ClickByIndexTool.execute step by step: each page.evaluate and the
\* page.mouse.click is awaited, and between two of them the page runs its
\* own tasks: scroll, resize and mutation callbacks and the debounce timers
\* of the init-script instances.  A call in flight has response.kind
\* "pending"; response.elements and response.index hold `elements` and
\* `index`, pageOps the calls made so far.
ClickPages == { <<Button50x20>>, <<Button50x20, IconSpan5x5>>,
                <<LinkDisplayNone>> }

\* the document after load: every instance has run setup(), which scans
\* before it registers its observer, so the scan of a second instance is
\* seen by the observer of the first
TimersAfterSetup(n, drawn) ==
  [i \in InstanceIds |->
     IF i = 1 /\ n >= 2 /\ drawn
       THEN [set |-> TRUE, due |-> DebounceTicks] ELSE NoTimer]

InitClick ==
  /\ SessionReady
  /\ autoAnnotationEnabled = TRUE
  /\ scriptInstances \in 0..MaxInstances
  /\ initScriptAdded = (scriptInstances >= 1)
  /\ dom \in ClickPages
  /\ annotatedElements =
       IF scriptInstances >= 1 THEN AnnotationScan(dom) ELSE <<>>
  /\ overlays = IF scriptInstances >= 1 THEN OverlaysOfScan(dom) ELSE <<>>
  /\ debounceTimer =
       TimersAfterSetup(scriptInstances, OverlaysOfScan(dom) # <<>>)
  /\ hasTargets = (OverlaysOfScan(dom) # <<>>)
  /\ mutationPending = FALSE
  /\ burst = 0
  /\ gap = 0
  /\ rescans = 0
  /\ earlyScan = FALSE
  /\ response = NoResponse
  /\ pageOps = <<>>
  /\ TabSideIdle
  /\ LaunchSideIdle

ClickFrame ==
  UNCHANGED <<toolSide, autoAnnotationEnabled, initScriptAdded,
              scriptInstances, hasTargets, burstObserved, dom, tabSide,
              launchSide>>

InFlight == response.kind = "pending"
LastOp == IF pageOps = <<>> THEN "none" ELSE pageOps[Len(pageOps)]

\* a script that removes or inserts overlay nodes changes document.body;
\* the observers of the instances are told once the script has ended
Observed(before, after) ==
  scriptInstances >= 1 /\ (before # <<>> \/ after # <<>>)

\* scroll, resize, or a DOM change made by the page itself
PageEvent ==
  /\ scriptInstances >= 1
  /\ ~mutationPending
  /\ \A i \in InstanceIds :
        ~(debounceTimer[i].set /\ debounceTimer[i].due = 0)
  /\ debounceTimer' = AllDebounced
  /\ UNCHANGED <<annotatedElements, overlays, mutationPending, response,
                 pageOps>>
  /\ ClickFrame

\* 100 ms pass.  The removal of the overlays and the mouse click follow
\* each other in less than that.
ClockTick ==
  /\ ~mutationPending
  /\ ~(InFlight /\ LastOp = "remove")
  /\ \E i \in InstanceIds : debounceTimer[i].set
  /\ \A i \in InstanceIds :
        ~(debounceTimer[i].set /\ debounceTimer[i].due = 0)
  /\ debounceTimer' =
       [i \in InstanceIds |->
          IF debounceTimer[i].set
            THEN [set |-> TRUE, due |-> debounceTimer[i].due - 1]
            ELSE NoTimer]
  /\ UNCHANGED <<annotatedElements, overlays, mutationPending, response,
                 pageOps>>
  /\ ClickFrame

\* the timer of instance i fires: annotateElements()
DebouncedScan(i) ==
  /\ ~mutationPending
  /\ i <= scriptInstances
  /\ debounceTimer[i].set /\ debounceTimer[i].due = 0
  /\ \A j \in 1..(i - 1) :
        ~(debounceTimer[j].set /\ debounceTimer[j].due = 0)
  /\ debounceTimer' = [debounceTimer EXCEPT ![i] = NoTimer]
  /\ annotatedElements' = AnnotationScan(dom)
  /\ overlays' = OverlaysAfterPass(overlays, dom)
  /\ mutationPending' = Observed(overlays, OverlaysOfScan(dom))
  /\ UNCHANGED <<response, pageOps>>
  /\ ClickFrame

\* the MutationObserver callbacks: debouncedAnnotate() in every instance
ObserverCallback ==
  /\ mutationPending
  /\ mutationPending' = FALSE
  /\ debounceTimer' = AllDebounced
  /\ UNCHANGED <<annotatedElements, overlays, response, pageOps>>
  /\ ClickFrame

\* RemoveAnnotationsTool.execute, between two other tool calls
RemoveAnnotationsCall ==
  /\ ~InFlight
  /\ ~mutationPending
  /\ overlays' = <<>>
  /\ mutationPending' = Observed(overlays, <<>>)
  /\ response' = [NoResponse EXCEPT !.kind = "removed"]
  /\ pageOps' = <<"remove">>
  /\ UNCHANGED <<annotatedElements, debounceTimer>>
  /\ ClickFrame

\* `elements = await page.evaluate(() => __playwrightAnnotatedElements || [])`
ClickReadsCache(index) ==
  /\ ~InFlight
  /\ ~mutationPending
  /\ response' = [NoResponse EXCEPT !.kind = "pending",
                                    !.elements = annotatedElements,
                                    !.index = index]
  /\ pageOps' = <<"cache">>
  /\ UNCHANGED <<annotatedElements, overlays, debounceTimer,
                 mutationPending>>
  /\ ClickFrame

\* `elements = await page.evaluate(getAnnotationScript())`
ClickScans ==
  /\ InFlight
  /\ ~mutationPending
  /\ pageOps = <<"cache">>
  /\ Len(response.elements) = 0
  /\ response' = [response EXCEPT !.elements = AnnotationScan(dom)]
  /\ overlays' = OverlaysAfterPass(overlays, dom)
  /\ mutationPending' = Observed(overlays, OverlaysOfScan(dom))
  /\ pageOps' = <<"cache", "annotate">>
  /\ UNCHANGED <<annotatedElements, debounceTimer>>
  /\ ClickFrame

\* the list is there: after the scan, or after the cache read when the
\* cache was not empty
ListReady ==
  /\ InFlight
  /\ \/ pageOps = <<"cache", "annotate">>
     \/ pageOps = <<"cache">> /\ Len(response.elements) # 0

\* no element has the index: the error response
ClickNotFound ==
  /\ ListReady
  /\ ~mutationPending
  /\ FindByIndex(response.elements, response.index) = {}
  /\ response' = [NoResponse EXCEPT !.kind = "not_found",
                                    !.isError = TRUE,
                                    !.index = response.index,
                                    !.last = Len(response.elements) - 1]
  /\ UNCHANGED <<annotatedElements, overlays, debounceTimer,
                 mutationPending, pageOps>>
  /\ ClickFrame

\* `await page.evaluate(getRemoveAnnotationScript())`
ClickRemoves ==
  /\ ListReady
  /\ ~mutationPending
  /\ FindByIndex(response.elements, response.index) # {}
  /\ overlays' = <<>>
  /\ mutationPending' = Observed(overlays, <<>>)
  /\ pageOps' = Append(pageOps, "remove")
  /\ UNCHANGED <<annotatedElements, debounceTimer, response>>
  /\ ClickFrame

\* `await page.mouse.click(centerX, centerY)` and the success response
ClickDispatches ==
  /\ InFlight
  /\ ~mutationPending
  /\ LastOp = "remove"
  /\ LET found == FindByIndex(response.elements, response.index)
         element ==
           response.elements[CHOOSE k \in found : \A j \in found : k <= j]
     IN response' =
          [NoResponse EXCEPT
             !.kind = "clicked",
             !.index = response.index,
             !.point = Center2(element.boundingBox),
             !.reported =
                [x |-> MathRoundHalf(Center2(element.boundingBox).x2),
                 y |-> MathRoundHalf(Center2(element.boundingBox).y2)]]
  /\ pageOps' = Append(pageOps, "mouse.click")
  /\ UNCHANGED <<annotatedElements, overlays, debounceTimer,
                 mutationPending>>
  /\ ClickFrame

NextClick ==
  \/ PageEvent
  \/ ClockTick
  \/ \E i \in InstanceIds : DebouncedScan(i)
  \/ ObserverCallback
  \/ RemoveAnnotationsCall
  \/ \E index \in ClickIndexes : ClickReadsCache(index)
  \/ ClickScans
  \/ ClickNotFound
  \/ ClickRemoves
  \/ ClickDispatches

SpecClick == InitClick /\ [][NextClick]_vars

\* ------------------------------------------------------- classification
\* The type classification of the two scans, applied to one visible element
\* at a time: every tag the classification names and one it does not, with
\* and without role="button", with each input type it names and one more.
ClassifiedTags ==
  {"a", "button", "input", "select", "textarea", "form", "div"}
RoleAttrs == { {}, {"role=button"} }
TypeAttrs ==
  { {}, {"type=submit"}, {"type=button"}, {"type=checkbox"}, {"type=radio"},
    {"type=file"}, {"type=text"} }
ClassifiedKinds ==
  { Element(t, {"href", "onclick"} \cup r \cup ty, Shown,
            Box(10, 10, 50, 20)) :
      t \in ClassifiedTags, r \in RoleAttrs, ty \in TypeAttrs }

InitClassify ==
  /\ SessionReady
  /\ autoAnnotationEnabled = TRUE
  /\ initScriptAdded = TRUE
  /\ scriptInstances = InstancesAfterLoad
  /\ debounceTimer = [i \in InstanceIds |-> NoTimer]
  /\ hasTargets = FALSE
  /\ mutationPending = FALSE
  /\ burst = 0
  /\ gap = 0
  /\ rescans = 0
  /\ earlyScan = FALSE
  /\ \E e \in ClassifiedKinds : dom = <<e>>
  /\ annotatedElements = <<>>
  /\ overlays = <<>>
  /\ response = NoResponse
  /\ pageOps = <<>>
  /\ TabSideIdle
  /\ LaunchSideIdle

NextClassify ==
  \/ annotateElements
  \/ AnnotateElementsTool

SpecClassify == InitClassify /\ [][NextClassify]_vars

\* ------------------------------------------------ pages opened by pages
\* A page of the context opens another page (window.open, a link with
\* target=_blank).  The context created in the launch block or on the retry
\* path has a 'page' listener that attaches console forwarding and, if the
\* flag is set when it resumes, arms the new page.  The pass of that
\* listener over the page ensureBrowser itself opens is left out: its
\* addInitScript is issued before ensureBrowser's own, so it resumes first
\* and reads the flag ensureBrowser reads.  No routed tool makes such a page
\* the Session's page.
TabsFrame ==
  UNCHANGED <<session, pc, call, locals, result, observed, document,
              burstObserved, scanSide, bPageListener, launchSide>>

\* `await browser.newContext(...)` settles; the launch block and the retry
\* path then register context.on('page', ...), the page validity check
\* does not
ContextOpens(ok) ==
  /\ NewContextOutcome(ok)
  /\ bPageListener' =
       IF ok THEN [bPageListener EXCEPT ![tb] = ListensForPages(phase)]
             ELSE bPageListener
  /\ UNCHANGED <<document, burstObserved, scanSide, listenerAt, popupFlag,
                 launchSide>>

\* the context of browser b emits 'page' for a page opened by one of its
\* pages; the listener, if any, issues registerConsoleMessage(newPage)
PopupOpens(b) ==
  /\ EnvMayAct
  /\ b \in 1..nBrowsers
  /\ isConnected(b)
  /\ bHasContext[b]
  /\ \E q \in 1..nPages : pBrowser[q] = b /\ ~isClosed(q)
  /\ nPages < MaxPages
  /\ nPages' = nPages + 1
  /\ pBrowser' = [pBrowser EXCEPT ![nPages + 1] = b]
  /\ popupFlag' = [popupFlag EXCEPT ![nPages + 1] =
                     IF autoAnnotationEnabled THEN "on" ELSE "off"]
  /\ listenerAt' = [listenerAt EXCEPT ![nPages + 1] =
                      IF bPageListener[b] THEN "console" ELSE "none"]
  /\ UNCHANGED <<autoAnnotationEnabled, browsers, pClosed, pArmed>>
  /\ TabsFrame

\* `await registerConsoleMessage(newPage)` of the listener settles; then
\* `if (autoAnnotationEnabled) await setupAutoAnnotation(newPage)`
PageListenerConsoleSettles(p, ok) ==
  /\ EnvMayAct
  /\ p \in 1..nPages
  /\ listenerAt[p] = "console"
  /\ IF ok
       THEN /\ ~isClosed(p)
            /\ listenerAt' = [listenerAt EXCEPT ![p] =
                 IF autoAnnotationEnabled THEN "arm" ELSE "done"]
       ELSE listenerAt' = [listenerAt EXCEPT ![p] = "failed"]
  /\ UNCHANGED <<autoAnnotationEnabled, browsers, pages, popupFlag>>
  /\ TabsFrame

\* `await setupAutoAnnotation(newPage)` of the listener settles; then the
\* 'load' handler is registered
PageListenerArmSettles(p, ok) ==
  /\ EnvMayAct
  /\ p \in 1..nPages
  /\ listenerAt[p] = "arm"
  /\ IF ok
       THEN /\ ~isClosed(p)
            /\ pArmed' = [pArmed EXCEPT ![p] = TRUE]
            /\ listenerAt' = [listenerAt EXCEPT ![p] = "done"]
       ELSE /\ listenerAt' = [listenerAt EXCEPT ![p] = "failed"]
            /\ UNCHANGED pArmed
  /\ UNCHANGED <<autoAnnotationEnabled, browsers, nPages, pBrowser, pClosed,
                 popupFlag>>
  /\ TabsFrame

\* the calls and the failure followed in this section
TabCallInputs ==
  { c \in CallInputs :
      /\ c.name \in {"playwright_click", "playwright_set_auto_annotation"}
      /\ c.browserType = "" }
TabThrownValues == { [kind |-> "Error", message |-> <<"Target closed">>] }

NextTabs ==
  \/ \E inp \in TabCallInputs : HandleToolCall(inp)
  \/ \E ok \in BOOLEAN : BrowserCloseSettles(ok)
  \/ EnsureStart
  \/ EnsureLaunchDecision
  \/ \E ok \in BOOLEAN : LaunchSettles(ok)
  \/ \E ok \in BOOLEAN : ContextOpens(ok)
  \/ \E ok \in BOOLEAN : NewPageSettles(ok)
  \/ \E ok \in BOOLEAN : ConsoleSettles(ok)
  \/ \E ok \in BOOLEAN : ArmSettles(ok)
  \/ VerifyPage
  \/ CatchCleanup
  \/ EnsureReturns
  \/ EnsureThrows
  \/ RouteToTool
  \/ HandlerReturns(FALSE)
  \/ \E v \in TabThrownValues : HandlerThrows(v)
  \/ Deliver
  \/ \E b \in BrowserIds : BrowserDisconnect(b)
  \/ \E b \in BrowserIds : DisconnectedListener(b)
  \/ \E p \in PageIds : PageClose(p)
  \/ \E b \in BrowserIds : PopupOpens(b)
  \/ \E p \in PageIds, ok \in BOOLEAN : PageListenerConsoleSettles(p, ok)
  \/ \E p \in PageIds, ok \in BOOLEAN : PageListenerArmSettles(p, ok)

SpecTabs == Init /\ [][NextTabs]_vars

\* ------------------------------------------------------- browser settings
\* The options handed to browserInstance.launch and to browser.newContext.
\* handleToolCall builds browserSettings from the arguments of every browser
\* tool call; ensureBrowser destructures it inside `if (!browser)` and on
\* the retry path.
SettingNames == {"viewport", "userAgent", "headless", "proxy"}
SettingsArgs == { NoSettings, SettingNames }
ExecutablePaths == {NoPath, "/opt/chrome"}

\* browserSettings: args.userAgent is passed on for one tool only
browserSettings(c) ==
  IF c.name = "playwright_custom_user_agent"
    THEN c.settings
    ELSE c.settings \ {"userAgent"}

\* variant: the retry launch reads CHROME_EXECUTABLE_PATH as well
RetryExecutablePath_FromEnv(env) == env
\* the retry launch passes { headless, proxy } and no executablePath
RetryExecutablePath(env) == NoPath

\* launch({ headless, executablePath, proxy }) of the launch block and
\* launch({ headless, proxy }) of the retry path
ExecutablePathOf(ph, env) ==
  IF ph = "retry" THEN RetryExecutablePath(env) ELSE env
LaunchOptionsOf(c) == browserSettings(c) \cap {"headless", "proxy"}

\* newContext({ userAgent, viewport, deviceScaleFactor }) of the launch
\* block and of the retry path; the page validity check calls newContext()
ContextOptionsOf(ph, c) ==
  IF ph = "verify" THEN {}
                   ELSE browserSettings(c) \cap {"viewport", "userAgent"}

SettingsFrame ==
  UNCHANGED <<document, burstObserved, scanSide, tabSide, envExecutablePath>>

LaunchWithOptions(ok) ==
  /\ LaunchOutcome(ok)
  /\ lastOptions' =
       IF ok
         THEN [browser |-> nBrowsers + 1,
               attempt |-> phase,
               launch |-> LaunchOptionsOf(call),
               executablePath |-> ExecutablePathOf(phase, envExecutablePath),
               hasContext |-> FALSE,
               context |-> {}]
         ELSE lastOptions
  /\ SettingsFrame

ContextWithOptions(ok) ==
  /\ NewContextOutcome(ok)
  /\ lastOptions' =
       IF ok
         THEN IF lastOptions.browser = tb
                THEN [lastOptions EXCEPT !.hasContext = TRUE,
                                         !.context =
                                            ContextOptionsOf(phase, call)]
                ELSE lastOptions
         ELSE lastOptions
  /\ SettingsFrame

SettingsCallInputs ==
  { [name |-> n, browserType |-> "", enabled |-> FALSE, settings |-> g] :
       n \in {"playwright_click", "playwright_custom_user_agent"},
       g \in SettingsArgs }
SettingsThrownValues == { [kind |-> "Error", message |-> <<"Target closed">>] }

\* the browsers stay up here: pages close, awaits fail and tools throw
InitSettings ==
  /\ ToolSideInit
  /\ autoAnnotationEnabled = TRUE
  /\ PageSideIdle
  /\ envExecutablePath \in ExecutablePaths

NextSettings ==
  \/ \E inp \in SettingsCallInputs : HandleToolCall(inp)
  \/ \E ok \in BOOLEAN : BrowserCloseSettles(ok)
  \/ EnsureStart
  \/ EnsureLaunchDecision
  \/ \E ok \in BOOLEAN : LaunchWithOptions(ok)
  \/ \E ok \in BOOLEAN : ContextWithOptions(ok)
  \/ \E ok \in BOOLEAN : NewPageSettles(ok)
  \/ \E ok \in BOOLEAN : ConsoleSettles(ok)
  \/ \E ok \in BOOLEAN : ArmSettles(ok)
  \/ VerifyPage
  \/ CatchCleanup
  \/ EnsureReturns
  \/ EnsureThrows
  \/ RouteToTool
  \/ HandlerReturns(FALSE)
  \/ \E v \in SettingsThrownValues : HandlerThrows(v)
  \/ Deliver
  \/ \E p \in PageIds : PageClose(p)

SpecSettings == InitSettings /\ [][NextSettings]_vars

\* ------------------------------------------------------- NavigationTool
\* NavigationTool.execute(args, context) for playwright_navigate.  result
\* kind "rejected" stands for the rejection of execute() with an Error of
\* the message in text.  BrowserToolBase.safeExecute is taken to run the
\* callback on context.page and to pass its outcome on.
NotConnectedText ==
  <<"Browser is not connected. The connection has been reset - please retry your navigation.">>
PageUnavailableText ==
  <<"Page is not available or has been closed. Please retry your navigation.">>
NavigatedText == <<"Navigated to ">>
ConnectionIssueText(msg) ==
  <<"Browser connection issue: ">> \o msg
    \o <<". Connection has been reset - please retry your navigation.">>

\* variant: the five substrings of the dispatcher
NavigationLossPatterns_AsDispatcher == ConnectionLossPatterns
\* the three substrings the catch of the callback looks for
NavigationLossPatterns ==
  { <<"Target page, context or browser has been closed">>,
    <<"Target closed">>,
    <<"Browser has been disconnected">> }
IsNavigationLoss(msg) ==
  \E pat \in NavigationLossPatterns : Includes(msg, pat)

\* page.goto and page.evaluate reject with Error objects
NavigationErrors == { [kind |-> "Error", message |-> m] : m \in Messages }
NavigationOutcomes == {[kind |-> "ok", message |-> <<>>]} \cup NavigationErrors

NavigateFrame ==
  UNCHANGED <<pageSide, autoAnnotationEnabled, browsers, pages, call, locals,
              launchesInCall, ensureOutcome, heldAtStart, lostAtStart>>

\* execute(args, context) is a public method of an exported class: a caller
\* other than handleToolCall hands it a context it holds, with any browser
\* and page of the run or none.  call.name is "" for such a call
DirectExecute(b, p) ==
  /\ pc = "idle"
  /\ b \in 0..nBrowsers
  /\ p \in 0..nPages
  /\ call' = NoArgs
  /\ ctxBrowser' = b
  /\ ctxPage' = p
  /\ result' = NoResult
  /\ pc' = "nav_start"
  /\ UNCHANGED <<pageSide, session, autoAnnotationEnabled, browsers, pages,
                 phase, tb, tp, observed>>

\* execute() is entered from `case "playwright_navigate"` of the switch or
\* from a direct call
NavigationEntered ==
  \/ pc = "route" /\ call.name = "playwright_navigate"
  \/ pc = "nav_start"

\* the two checks that open execute(), up to the first await
NavigationToolExecute ==
  /\ NavigationEntered
  /\ handlerRan' = (pc = "route" \/ handlerRan)
  /\ IF ctxBrowser = None \/ ~isConnected(ctxBrowser)
       THEN /\ resetBrowserState
            /\ result' = [kind |-> "err", text |-> NotConnectedText]
            /\ pc' = "returned"
       ELSE IF ctxPage = None \/ isClosed(ctxPage)
              THEN /\ result' = [kind |-> "err", text |-> PageUnavailableText]
                   /\ pc' = "returned"
                   /\ UNCHANGED session
              ELSE /\ pc' = "nav_goto"
                   /\ UNCHANGED <<session, result>>
  /\ NavigateFrame

\* the catch block of the callback applied to the Error e
NavigateCatch(e) ==
  IF IsNavigationLoss(e.message)
    THEN /\ resetBrowserState
         /\ result' = [kind |-> "err", text |-> ConnectionIssueText(e.message)]
         /\ pc' = "returned"
    ELSE /\ result' = [kind |-> "rejected", text |-> e.message]
         /\ pc' = "nav_rethrown"
         /\ UNCHANGED session

\* `await page.goto(args.url, ...)` settles
NavigateGotoSettles(o) ==
  /\ pc = "nav_goto"
  /\ IF o.kind = "ok"
       THEN IF autoAnnotationEnabled
              THEN pc' = "nav_evaluate" /\ UNCHANGED <<session, result>>
              ELSE /\ result' = [kind |-> "ok", text |-> NavigatedText]
                   /\ pc' = "returned"
                   /\ UNCHANGED session
       ELSE NavigateCatch(o)
  /\ UNCHANGED handlerRan
  /\ NavigateFrame

\* `await page.evaluate(getAutoAnnotationInitScript())` settles
NavigateEvaluateSettles(o) ==
  /\ pc = "nav_evaluate"
  /\ IF o.kind = "ok"
       THEN /\ result' = [kind |-> "ok", text |-> NavigatedText]
            /\ pc' = "returned"
            /\ UNCHANGED session
       ELSE NavigateCatch(o)
  /\ UNCHANGED handlerRan
  /\ NavigateFrame

\* the rejection of execute() reaches the caller of a direct call
DirectRejected ==
  /\ pc = "nav_rethrown"
  /\ call.name = ""
  /\ pc' = "returned"
  /\ UNCHANGED <<session, result, handlerRan>>
  /\ NavigateFrame

\* the rejection of execute() reaches the catch block of handleToolCall
NavigateRejected ==
  /\ pc = "nav_rethrown"
  /\ call.name # ""
  /\ LET o == DispatchCatch(call.name,
                            [kind |-> "Error", message |-> result.text]) IN
       /\ IF o.reset THEN resetBrowserState ELSE UNCHANGED session
       /\ result' = [kind |-> o.kind, text |-> o.text]
  /\ pc' = "returned"
  /\ UNCHANGED handlerRan
  /\ NavigateFrame

\* the other cases of the switch
RouteOtherTool ==
  /\ call.name # "playwright_navigate"
  /\ RouteToTool

NavigateCallInputs ==
  { [name |-> "playwright_navigate", browserType |-> "", enabled |-> FALSE,
     settings |-> NoSettings] }
    \cup { c \in CallInputs : c.name = "playwright_set_auto_annotation" }

NextNavigate ==
  \/ \E inp \in NavigateCallInputs : HandleToolCall(inp)
  \/ \E ok \in BOOLEAN : BrowserCloseSettles(ok)
  \/ EnsureStart
  \/ EnsureLaunchDecision
  \/ \E ok \in BOOLEAN : LaunchSettles(ok)
  \/ \E ok \in BOOLEAN : NewContextSettles(ok)
  \/ \E ok \in BOOLEAN : NewPageSettles(ok)
  \/ \E ok \in BOOLEAN : ConsoleSettles(ok)
  \/ \E ok \in BOOLEAN : ArmSettles(ok)
  \/ VerifyPage
  \/ CatchCleanup
  \/ EnsureReturns
  \/ EnsureThrows
  \/ RouteOtherTool
  \/ \E b \in 0..MaxBrowsers, p \in 0..MaxPages : DirectExecute(b, p)
  \/ NavigationToolExecute
  \/ DirectRejected
  \/ \E o \in NavigationOutcomes : NavigateGotoSettles(o)
  \/ \E o \in NavigationOutcomes : NavigateEvaluateSettles(o)
  \/ NavigateRejected
  \/ Deliver
  \/ \E b \in BrowserIds : BrowserDisconnect(b)
  \/ \E b \in BrowserIds : DisconnectedListener(b)
  \/ \E p \in PageIds : PageClose(p)

SpecNavigate == Init /\ [][NextNavigate]_vars

TypeOK ==
  /\ browser \in 0..MaxBrowsers
  /\ page \in 0..MaxPages
  /\ currentBrowserType \in Engines
  /\ pc \in AwaitPcs \cup SyncPcs \cup {"idle"}


\* ------------------------------------------------------------------ shapes
\* the active page is set and open, on a browser handle that is set and
\* connected
Healthy ==
  /\ page # None
  /\ ~isClosed(page)
  /\ browser # None
  /\ isConnected(browser)
  /\ pBrowser[page] = browser

\* browser handle and page both empty
Cleared == browser = None /\ page = None

\* a message contains one of the five connection-loss texts
LossFragments ==
  { "Target page, context or browser has been closed",
    "Browser has been disconnected", "Target closed", "Protocol error",
    "Connection closed" }
ContainsLossText(m) == \E i \in 1..Len(m) : m[i] \in LossFragments

\* ------------------------------------------------------------------ claims

\* C1: after every call of handleToolCall returns, the Session is either
\* healthy (page set and open, browser set and connected) or fully
\* cleared (browser and page both empty).
C1_ShapeAfterCall == pc = "returned" => (Healthy \/ Cleared)

\* C2: the Session's page is non-null only if the Session's browser handle
\* is non-null and connected; stated for the states in which every
\* disconnection has already been delivered to its listener.
C2_PageOnlyWithConnectedBrowser ==
  pendingDisc = {} =>
    (page # None => browser # None /\ isConnected(browser))

\* C3: whenever ensureBrowser returns normally, the returned page is
\* defined and open and belongs to a connected browser that is the
\* Session's current browser handle.
C3_ReturnedPageIsLive == pc = "e_return" => Healthy

\* C4: a browser-dependent call that starts with a connected browser held
\* and requests engine variant B leaves the Session's engine variant at B
\* once ensureBrowser has returned.
C4_VariantAfterCall ==
  (pc = "e_return" /\ heldAtStart # None)
     => currentBrowserType = RequestedType(call)

\* C5: an ensureBrowser call that starts with a connected browser and an
\* open page runs straight to its return: no launch, no close, no new
\* page, and the browser handle and page it hands to the dispatcher are
\* the ones the Session held.
FastPathNext(p) ==
  CASE p = "e_start" -> "e_launchq"
    [] p = "e_launchq" -> "verify"
    [] p = "verify" -> "e_return"
    [] p = "e_return" -> "route"
C5_SecondCallReuses ==
  [][ (pc \in {"e_start", "e_launchq", "verify", "e_return"}
         /\ launchesInCall = 0 /\ Healthy)
      => /\ pc' = FastPathNext(pc)
         /\ UNCHANGED <<session, browsers, pages, launchesInCall>>
         /\ (pc = "e_return" => ctxPage' = page /\ ctxBrowser' = browser)
    ]_vars
C5_Witness ==
  /\ pc = "route"
  /\ ensureOutcome = "ok"
  /\ heldAtStart # None
  /\ launchesInCall = 0
  /\ ctxBrowser = heldAtStart
  /\ ctxPage = page
  /\ Healthy

\* C6: a throw in the first attempt of ensureBrowser leads to the catch
\* block, which closes the browser handle if one is set, clears the
\* Session and launches once more; a throw in the second attempt leaves
\* ensureBrowser; one call performs at most two launches.
C6_RetryExactlyOnce ==
  /\ [](launchesInCall <= 2)
  /\ []((pc = "launch" /\ phase = "retry") => Cleared)
  /\ [][ /\ (pc' = "catch" /\ pc # "catch") => phase \in {"first", "verify"}
         /\ (pc' = "e_throw" /\ pc # "e_throw") => phase = "retry"
         /\ (pc = "catch" /\ browser # None)
               => (pc' = "close_catch" /\ tb' = browser)
         /\ (pc = "catch" /\ browser = None) => pc' = "launch"
         /\ (pc = "close_catch" /\ pc' # pc) => pc' = "launch"
         /\ phase = "retry" => pc' # "catch"
    ]_vars
C6_Witness ==
  /\ pc = "returned"
  /\ ensureOutcome = "threw"
  /\ launchesInCall = 2

\* C7: whenever ensureBrowser has failed and the dispatcher returns the
\* 'Failed to initialize browser' result, browser handle and page are
\* both empty.
C7_ClearedAfterInitFailure ==
  (pc = "returned" /\ result.kind = "err_init") => Cleared

\* C8: handleToolCall never throws; every call ends with a result object.
C8_NeverThrows ==
  pc = "returned" => result.kind \in {"ok", "err", "err_init", "err_reset"}

\* C9: for a browser-dependent tool the handler runs only after
\* ensureBrowser has returned; when ensureBrowser fails the dispatcher
\* returns the initialization failure and the handler is not executed.
C9_NoHandlerAfterInitFailure ==
  /\ ensureOutcome = "threw"
        => (~handlerRan /\ pc = "returned" /\ result.kind = "err_init")
  /\ (handlerRan /\ call.name \in BROWSER_TOOLS) => ensureOutcome = "ok"
C9_Witness ==
  /\ pc = "returned"
  /\ call.name = "playwright_click"
  /\ ensureOutcome = "threw"
  /\ result.kind = "err_init"
  /\ ~handlerRan

\* C10: when the handler of a browser-dependent tool throws an Error whose
\* message contains one of the five connection-loss texts, the dispatcher
\* empties browser handle and page and returns the 'state has been reset'
\* error result.  Stated on the steps out of the handler: a step that does
\* not end in the reset outcome is not the throw of such an Error.
LossErrors ==
  { v \in ThrownValues : v.kind = "Error" /\ ContainsLossText(v.message) }
C10_ConnectionLossResets ==
  [][ (/\ pc = "handler"
       /\ pc' = "returned"
       /\ call.name \in BROWSER_TOOLS
       /\ ~(browser' = None /\ page' = None /\ result'.kind = "err_reset"))
        => \A v \in LossErrors : ~HandlerThrows(v)
    ]_vars
C10_Witness ==
  /\ pc = "returned"
  /\ handlerRan
  /\ heldAtStart # None
  /\ result.kind = "err_reset"
  /\ Cleared

\* C11: when a handler throws an Error whose message contains none of the
\* five connection-loss texts, the dispatcher returns an error result whose
\* text is the message, unchanged, and browser handle, page, engine variant
\* and auto-annotation flag keep the values they had when the handler threw.
OtherErrors ==
  { v \in ThrownValues : v.kind = "Error" /\ ~ContainsLossText(v.message) }
C11_OtherErrorsPassThrough ==
  [][ (pc = "handler" /\ pc' = "returned")
        => \A v \in OtherErrors :
             HandlerThrows(v)
               => /\ result' = [kind |-> "err", text |-> v.message]
                  /\ UNCHANGED <<session, autoAnnotationEnabled>>
    ]_vars
C11_Witness ==
  /\ pc = "returned"
  /\ handlerRan
  /\ call.name = "playwright_click"
  /\ result = [kind |-> "err",
               text |-> <<"selector not found", "Connection refused">>]
  /\ Healthy
  /\ currentBrowserType = "firefox"
  /\ ~autoAnnotationEnabled

\* C12: playwright_close always returns a success result and leaves browser
\* handle and page both empty, whatever the Session held when it was called.
C12_CloseSucceedsAndClears ==
  (pc = "returned" /\ call.name = "playwright_close")
     => (result.kind = "ok" /\ Cleared)

\* C13: after playwright_close returns, no browser launched by this process
\* is still connected.
C13_NoLiveBrowserAfterClose ==
  (pc = "returned" /\ call.name = "playwright_close")
     => \A b \in 1..nBrowsers : ~isConnected(b)

\* C14: the 'disconnected' listener empties browser handle and page whether
\* or not a tool call is in flight; a browser-dependent call whose handler
\* throws a connection-loss Error returns the reset error result with the
\* Session emptied, whether the listener ran before the throw or has not
\* run yet; the listener running after the reset changes nothing, so both
\* orders end in the same Session.
ClearedByReset == session = <<None, None, DefaultBrowserType>>
C14_ListenerAndResetCommute ==
  /\ [][ \A b \in BrowserIds :
           (b \in pendingDisc /\ b \notin pendingDisc'
              /\ DisconnectedListener(b))
             => /\ browser' = None /\ page' = None
                /\ (ClearedByReset => UNCHANGED session)
       ]_vars
  /\ []( (/\ pc = "returned"
          /\ handlerRan
          /\ call.name \in BROWSER_TOOLS
          /\ ContainsLossText(result.text))
           => (result.kind = "err_reset" /\ ClearedByReset) )
\* the listener of the browser the call started with ran while the handler
\* was executing, and the handler then threw
C14_Witness ==
  /\ pc = "returned"
  /\ handlerRan
  /\ call.name = "playwright_click"
  /\ call.browserType = "firefox"
  /\ heldAtStart # None
  /\ ~isConnected(heldAtStart)
  /\ heldAtStart \notin pendingDisc
  /\ result.kind = "err_reset"
  /\ ClearedByReset

\* C15: a browser-dependent call that starts after a browser has
\* disconnected, with no connected browser held, and whose ensureBrowser
\* returns, hands its handler an open page of a connected browser launched
\* in this call.
C15_RecoversWithFreshBrowser ==
  (/\ pc = "route"
   /\ call.name \in BROWSER_TOOLS
   /\ lostAtStart)
     => /\ launchesInCall >= 1
        /\ ctxPage # None
        /\ ~isClosed(ctxPage)
        /\ isConnected(pBrowser[ctxPage])

\* C16: resetBrowserState sets browser handle and page to empty and the
\* engine variant to its default, closes no browser and no page, and leaves
\* the auto-annotation flag alone; applied to a Session it has already
\* reset it changes nothing.  ResetOnly are the steps in which the code
\* calls resetBrowserState and nothing else that writes state; the steps
\* out of an `await browser.close()` call it after the close.
ResetOnly ==
  \/ (pc = "idle" /\ call'.name = "playwright_close"
         /\ browser # None /\ ~isConnected(browser))
  \/ (pc = "catch" /\ browser = None)
  \/ (pc = "handler" /\ result'.kind = "err_reset")
C16_ResetClearsAndClosesNothing ==
  [][ /\ ResetOnly
         => /\ browser' = None
            /\ page' = None
            /\ currentBrowserType' = DefaultBrowserType
            /\ UNCHANGED <<autoAnnotationEnabled, browsers, pages>>
            /\ (ClearedByReset => UNCHANGED session)
      /\ (pc \in ClosePcs /\ pc' # pc)
         => /\ browser' = None
            /\ page' = None
            /\ currentBrowserType' = DefaultBrowserType
            /\ UNCHANGED autoAnnotationEnabled
    ]_vars
\* the dispatcher has reset a firefox Session whose browser is still
\* running, with auto-annotation switched off
C16_Witness ==
  /\ pc = "returned"
  /\ result.kind = "err_reset"
  /\ call.browserType = "firefox"
  /\ heldAtStart # None
  /\ isConnected(heldAtStart)
  /\ ~autoAnnotationEnabled
  /\ ClearedByReset

\* C17: no browser exists before the first browser-dependent call; a
\* browser is launched and a page is created only inside a call of a tool
\* of BROWSER_TOOLS other than playwright_close; playwright_close, unknown
\* names and tools outside BROWSER_TOOLS never reach ensureBrowser.
LaunchingTools == BROWSER_TOOLS \ {"playwright_close"}
EnsurePcs ==
  {"e_start", "e_launchq", "launch", "newContext", "newPage", "console",
   "arm", "verify", "catch", "close_step1", "close_type", "close_catch",
   "e_return", "e_throw"}
C17_LazyLaunch ==
  /\ (nBrowsers = 0 /\ nPages = 0)
  /\ [](pc \in EnsurePcs => call.name \in LaunchingTools)
  /\ [][ (nBrowsers' # nBrowsers \/ nPages' # nPages)
           => (call.name \in LaunchingTools /\ call' = call)
       ]_vars
\* a tool outside BROWSER_TOOLS has run its handler in a process that never
\* launched a browser
C17_Witness ==
  /\ pc = "returned"
  /\ call.name = "playwright_console_logs"
  /\ handlerRan
  /\ nBrowsers = 0
  /\ nPages = 0
  /\ browser = None

\* C18: on a page for which the init script was added, in a document that
\* runs the script, a burst of trigger events, each less than the debounce
\* delay after the previous one, causes
\* exactly one re-scan, and it runs after the last event of the burst: no
\* re-scan runs between two events of the burst, never more than one runs
\* after it, and one has run once the delay has passed.
TimerDue ==
  \E i \in InstanceIds : debounceTimer[i].set /\ debounceTimer[i].due = 0
C18_OneRescanPerBurst ==
  (initScriptAdded /\ scriptInstances >= 1 /\ burst > 0)
     => /\ ~earlyScan
        /\ rescans <= 1
        /\ (gap >= DebounceTicks /\ ~TimerDue /\ ~mutationPending)
              => rescans = 1



\* a box that shares no area with the viewport
EntirelyOutsideViewport(rect) ==
  \/ bottom(rect) <= 0
  \/ rect.top >= Viewport.innerHeight
  \/ right(rect) <= 0
  \/ rect.left >= Viewport.innerWidth

\* the candidates the scan is to return
Returnable(e) ==
  /\ e.rect.width # 0 /\ e.rect.height # 0
  /\ e.style.display # "none"
  /\ e.style.visibility # "hidden"
  /\ e.style.opacity # "0"
  /\ ~EntirelyOutsideViewport(e.rect)
  /\ e.rect.width >= MinSize /\ e.rect.height >= MinSize

\* the page of the scenario, its three elements in any order
ScenarioPage ==
  /\ Len(dom) = 3
  /\ {dom[n] : n \in 1..3} = {Button50x20, LinkDisplayNone, IconSpan5x5}

\* C19: an annotation scan returns exactly the candidate elements that have
\* non-zero rendered size, are not display:none, visibility:hidden or
\* opacity 0, are not entirely outside the viewport and are at least 10
\* wide and 10 high; on the page with one visible 50x20 button, one
\* display:none link and one 5x5 span with onclick the result is exactly
\* one element, of type "button" with index 0.
C19_ScanReturnsVisibleCandidates ==
  response.kind = "annotated" =>
    /\ {overlays[k][2] : k \in 1..Len(overlays)} =
         {n \in 1..Len(dom) :
            /\ \E k \in 1..Len(Candidates(dom)) : Candidates(dom)[k] = n
            /\ Returnable(dom[n])}
    /\ 2 * Len(response.elements) = Len(overlays)
    /\ ScenarioPage =>
         /\ Len(response.elements) = 1
         /\ response.elements[1].type = "button"
         /\ response.elements[1].index = 0

\* the list click_by_index works on: the cached one, or a fresh scan when
\* the cache is empty
ElementList ==
  IF Len(annotatedElements) = 0
    THEN AnnotationScan(dom) ELSE annotatedElements

\* C20: click_by_index with an index that is not in the element list
\* returns an error result naming the valid range as 0-(N-1) for a list of
\* N elements, dispatches no mouse click, does not remove overlays (the
\* removal step does not run; overlays drawn before stay when the list
\* came from the cache, and each of the N elements of a fresh scan has
\* its overlay), and leaves the Session untouched.
C20_OutOfRangeIndexIsReported ==
  [][\A index \in ClickIndexes :
       (/\ response'.index = index
        /\ response'.kind \in {"not_found", "clicked"}
        /\ \A k \in 1..Len(ElementList) : ElementList[k].index # index
        /\ ClickByIndexTool(index))
       => /\ response'.kind = "not_found"
          /\ response'.isError
          /\ response'.index = index
          /\ response'.last = Len(ElementList) - 1
          /\ \A o \in 1..Len(pageOps') :
                pageOps'[o] \notin {"mouse.click", "remove"}
          /\ Len(annotatedElements) # 0 => overlays' = overlays
          /\ Len(annotatedElements) = 0 =>
                Len(overlays') = 2 * Len(ElementList)
          /\ UNCHANGED <<session, browsers, pages>>]_vars

C20_Witness ==
  /\ response.kind = "not_found"
  /\ response.index = 3
  /\ response.last = 1
  /\ Len(annotatedElements) = 2
  /\ Len(overlays) = 4
  /\ pageOps = <<"cache">>
  /\ session = <<1, 1, DefaultBrowserType>>

\* C22: for a found element with bounding box (x, y, width, height),
\* click_by_index dispatches the click at the rounded center, at the integer
\* coordinates (round(x + width/2), round(y + height/2)), also for a box of
\* odd width or height, and the coordinates clicked are the coordinates
\* reported in the success message.
C22_ClickAtRoundedCenter ==
  response.kind = "clicked" =>
    \E k \in 1..Len(ElementList) :
       /\ ElementList[k].index = response.index
       /\ response.point.x2 =
            2 * MathRoundHalf(Center2(ElementList[k].boundingBox).x2)
       /\ response.point.y2 =
            2 * MathRoundHalf(Center2(ElementList[k].boundingBox).y2)
       /\ response.point.x2 = 2 * response.reported.x
       /\ response.point.y2 = 2 * response.reported.y

\* C21: click_by_index with an index present in the element list removes
\* all overlay nodes from the page before the mouse click is dispatched: at
\* the moment of the click no overlay node exists on the page.
C21_NoOverlayAtClick ==
  [][ClickDispatches => overlays = <<>>]_vars

\* an automatic annotation pass: the scan of setup() in a document that
\* has just loaded with an instance of the script, or a debounced re-scan
AutoPassOnLoad ==
  /\ NavigateTool \/ HistoryTool(TRUE)
  /\ scriptInstances' >= 1
AutoPassOnChange == \E i \in InstanceIds : TimerFires(i)

\* C23: auto-annotation follows the flag set by
\* playwright_set_auto_annotation: while the flag is false no automatic
\* annotation pass runs on page load or page change on any page of the
\* session, the page that existed when the flag was cleared included.
C23_NoAutoPassWhileDisabled ==
  [][~autoAnnotationEnabled => ~(AutoPassOnLoad \/ AutoPassOnChange)]_vars

\* C24: when ensureBrowser finds a connected browser whose stored page is
\* closed or missing, it opens a fresh page in the browser's first context
\* (creating a context only if there is none), stores it as the Session's
\* page, and performs no launch and no close: the browser handle is
\* unchanged.
C24_PageRecreatedInPlace ==
  /\ [](phase = "verify" => pc \notin ClosePcs \cup {"launch"})
  /\ []((phase = "verify" /\ pc = "newContext") => ~bHasContext[tb])
  /\ []((/\ pc = "e_return"
         /\ phase = "verify"
         /\ heldAtStart # None
         /\ isConnected(heldAtStart)
         /\ launchesInCall = 0) =>
          /\ browser = heldAtStart
          /\ page # None
          /\ pBrowser[page] = browser)
  /\ [][(phase = "verify" /\ phase' = "verify") =>
          nBrowsers' = nBrowsers]_vars

\* a page ensureBrowser opened during the call in flight
OpenedInCall == launchesInCall > 0 \/ phase \in {"verify", "retry"}

\* C25: while auto-annotation is enabled, every page that becomes the
\* Session's active page (initial page, page re-created after a close, page
\* of the retry path) and every page opened later inside the context is
\* armed before a tool handler runs against it; a page created while the
\* flag is cleared is not armed.
C25_ArmedIffEnabledAtCreation ==
  /\ (pc = "handler" /\ ctxPage # None /\ ~isClosed(ctxPage)) =>
       /\ OpenedInCall => (pArmed[ctxPage] <=> autoAnnotationEnabled)
       /\ popupFlag[ctxPage] = "on" => pArmed[ctxPage]
  /\ \A p \in 1..nPages : popupFlag[p] = "off" => ~pArmed[p]

\* the re-scan timers pending in the document
PendingTimers == { i \in InstanceIds : debounceTimer[i].set }

\* C26: a page has a single pending-timer slot for the debounced re-scan:
\* at most one re-scan timer is pending at any time, and a trigger that
\* arrives while one is pending cancels it and schedules it again, however
\* often the pipeline was armed or its script evaluated on the page.
C26_SinglePendingTimer ==
  /\ [](Cardinality(PendingTimers) <= 1)
  /\ [][(TriggerEvent /\ PendingTimers # {}) =>
          /\ Cardinality(PendingTimers') = 1
          /\ \A i \in PendingTimers' : debounceTimer'[i].due = DebounceTicks
       ]_vars

\* the positions, in the collection order of the scan, of the candidates no
\* filter drops
KeptCandidates ==
  LET c == Candidates(dom)
  IN { j \in 1..Len(c) : /\ ~SkipHidden(dom[c[j]])
                         /\ ~SkipOutsideViewport(dom[c[j]].rect)
                         /\ ~SkipSmall(dom[c[j]].rect) }

\* list numbers the kept candidates 0, 1, ... in collection order
NumberedInOrder(list) ==
  LET c == Candidates(dom)
  IN /\ Len(list) = Cardinality(KeptCandidates)
     /\ \A k \in 1..Len(list) :
          /\ list[k].index = k - 1
          /\ \E j \in KeptCandidates :
               /\ Cardinality({i \in KeptCandidates : i < j}) = k - 1
               /\ list[k].tagName = dom[c[j]].tagName
               /\ list[k].boundingBox.x = dom[c[j]].rect.left
               /\ list[k].boundingBox.y = dom[c[j]].rect.top

\* C27: a pass returning N elements gives them exactly the indices 0..N-1,
\* in the order the scan collected them; a candidate a filter drops uses up
\* no index.
C27_IndicesAreSequential ==
  /\ response.kind = "annotated" => NumberedInOrder(response.elements)
  /\ annotatedElements # <<>> => NumberedInOrder(annotatedElements)

\* a pass returned two elements and dropped a candidate collected before
\* the second of them
C27_Witness ==
  /\ response.kind = "annotated"
  /\ Len(response.elements) >= 2
  /\ \E j \in 1..Len(Candidates(dom)) :
       /\ j \notin KeptCandidates
       /\ \E i \in KeptCandidates : i > j

\* the vocabulary of element types
TypeVocabulary ==
  {"button", "link", "input", "select", "textarea", "checkbox", "radio",
   "submit", "file", "form", "clickable"}

\* the type by tag name first, then role, then input type
TypeByTag(e) ==
  IF e.tagName = "a" THEN "link"
  ELSE IF e.tagName \in {"button", "select", "textarea", "form"}
         THEN e.tagName
  ELSE "none"
TypeByRole(e) == IF "role=button" \in e.attrs THEN "button" ELSE "none"
TypeByInputType(e) ==
  IF e.tagName # "input" THEN "none"
  ELSE IF e.attrs \cap {"type=submit", "type=button"} # {} THEN "submit"
  ELSE IF "type=checkbox" \in e.attrs THEN "checkbox"
  ELSE IF "type=radio" \in e.attrs THEN "radio"
  ELSE IF "type=file" \in e.attrs THEN "file"
  ELSE "input"
TypeInPriorityOrder(e) ==
  IF TypeByTag(e) # "none" THEN TypeByTag(e)
  ELSE IF TypeByRole(e) # "none" THEN TypeByRole(e)
  ELSE IF TypeByInputType(e) # "none" THEN TypeByInputType(e)
  ELSE "clickable"

\* list holds the element of the document with the type the priority order
\* gives it
ClassifiedInOrder(list) ==
  /\ Len(list) = 1
  /\ list[1].type \in TypeVocabulary
  /\ list[1].type = TypeInPriorityOrder(dom[1])

\* C28: every surviving element gets a type of the fixed vocabulary, decided
\* by tag name first, then by the role attribute, then by the input type
\* attribute, "clickable" when none decides; the auto-annotation scan and
\* the manual scan give the same element the same type.
C28_TypeByTagRoleInputType ==
  /\ response.kind = "annotated" => ClassifiedInOrder(response.elements)
  /\ annotatedElements # <<>> => ClassifiedInOrder(annotatedElements)
  /\ (response.kind = "annotated" /\ annotatedElements # <<>>) =>
       response.elements[1].type = annotatedElements[1].type

\* C29: every completed annotation pass, run by the auto-annotation script,
\* by playwright_annotate or by the fallback of click_by_index, stores the
\* list it produced in window.__playwrightAnnotatedElements, so the cache
\* equals the result of the most recent pass.
C29_EveryPassFillsCache ==
  [][/\ (dom' = dom /\ response' = response /\ annotateElements)
          => annotatedElements' = AnnotationScan(dom)
     /\ (response'.kind = "annotated" /\ AnnotateElementsTool)
          => annotatedElements' = response'.elements
     /\ (/\ Len(annotatedElements) = 0
         /\ response'.kind \in {"not_found", "clicked"}
         /\ ClickByIndexTool(response'.index))
          => annotatedElements' = AnnotationScan(dom)]_vars

\* nodes holds, for the k-th element of list, a box and then a label that
\* mark the same element of the document, no two pairs the same element,
\* and nothing else
OnePairPerElement(nodes, list) ==
  /\ Len(nodes) = 2 * Len(list)
  /\ \A k \in 1..Len(list) :
       /\ nodes[2 * k - 1][1] = "box"
       /\ nodes[2 * k][1] = "label"
       /\ nodes[2 * k][2] = nodes[2 * k - 1][2]
       /\ dom[nodes[2 * k][2]].tagName = list[k].tagName
       /\ dom[nodes[2 * k][2]].rect.left = list[k].boundingBox.x
       /\ dom[nodes[2 * k][2]].rect.top = list[k].boundingBox.y
       /\ \A j \in 1..Len(list) :
            j # k => nodes[2 * j][2] # nodes[2 * k][2]

\* C30: every annotation pass first removes the overlay nodes drawn before,
\* so after a pass the overlay nodes of the page are exactly one box and
\* one label per element of the list the pass produced (2N nodes for N
\* elements), none left from earlier passes.
C30_OverlaysMatchLastPass ==
  [][/\ (dom' = dom /\ response' = response /\ annotateElements)
          => OnePairPerElement(overlays', annotatedElements')
     /\ (response'.kind = "annotated" /\ AnnotateElementsTool)
          => OnePairPerElement(overlays', response'.elements)
     /\ (/\ Len(annotatedElements) = 0
         /\ response'.kind = "not_found"
         /\ ClickByIndexTool(response'.index))
          => OnePairPerElement(overlays', AnnotationScan(dom))]_vars

\* an automatic and a manual pass have run on a page with two elements to
\* mark, and the overlays of the later pass are in the document
C30_Witness ==
  /\ annotatedElements # <<>>
  /\ response.kind = "annotated"
  /\ Len(response.elements) = 2
  /\ pageOps = <<"annotate">>
  /\ Len(overlays) = 4

\* the steps the last annotation tool made on the page
OpsOf(ops) == { ops[o] : o \in 1..Len(ops) }

\* C31: click_by_index reads the cached element list and runs a fresh scan
\* if and only if that list is empty; with a non-empty cache the index is
\* resolved against the cache and no scan runs.
C31_ScanOnlyOnEmptyCache ==
  [][\A index \in ClickIndexes :
       (/\ response'.index = index
        /\ response'.kind \in {"not_found", "clicked"}
        /\ ClickByIndexTool(index))
       => /\ pageOps'[1] = "cache"
          /\ ("annotate" \in OpsOf(pageOps')) <=> (Len(annotatedElements) = 0)
          /\ Len(annotatedElements) # 0 =>
               /\ overlays' \in {overlays, <<>>}
               /\ IF \E k \in 1..Len(annotatedElements) :
                       annotatedElements[k].index = index
                    THEN /\ response'.kind = "clicked"
                         /\ \E k \in 1..Len(annotatedElements) :
                              /\ annotatedElements[k].index = index
                              /\ response'.point =
                                   Center2(annotatedElements[k].boundingBox)
                    ELSE /\ response'.kind = "not_found"
                         /\ response'.last = Len(annotatedElements) - 1]_vars

\* a click resolved against a cache of two elements, without a scan
C31_Witness ==
  /\ response.kind = "clicked"
  /\ response.index = 1
  /\ Len(annotatedElements) = 2
  /\ pageOps = <<"cache", "remove", "mouse.click">>

\* C32: an ensureBrowser call that carries a viewport, a user agent, a
\* headless flag or a proxy and starts with a connected browser and an open
\* page launches nothing and creates no context; the Session, the browsers,
\* their contexts and the options of the latest launch stay as they are.
CarriesSettings(c) == browserSettings(c) # NoSettings
C32_SettingsReadOnceAtLaunch ==
  [][ (/\ pc \in {"e_start", "e_launchq", "verify", "e_return"}
       /\ launchesInCall = 0
       /\ Healthy
       /\ CarriesSettings(call))
      => /\ pc' \notin {"launch", "newContext"}
         /\ UNCHANGED <<session, nBrowsers, bHasContext, lastOptions>>
    ]_vars
C32_Witness ==
  /\ pc = "route"
  /\ ensureOutcome = "ok"
  /\ heldAtStart # None
  /\ launchesInCall = 0
  /\ Healthy
  /\ call.name = "playwright_custom_user_agent"
  /\ browserSettings(call) = SettingNames
  /\ lastOptions.browser = browser
  /\ lastOptions.launch = {}
  /\ lastOptions.hasContext
  /\ lastOptions.context = {}

\* C33: every launch of ensureBrowser, of the launch block and of the retry
\* path alike, hands CHROME_EXECUTABLE_PATH to launch(): the executable path
\* of the latest launch is the one the environment names, and its headless
\* flag and proxy are those of the call.
C33_EveryLaunchReadsExecutablePath ==
  (pc = "newContext" /\ phase \in {"first", "retry"}
     /\ lastOptions.attempt = phase /\ lastOptions.browser = tb)
    => /\ lastOptions.executablePath = envExecutablePath
       /\ lastOptions.launch = LaunchOptionsOf(call)

\* C34: at most one browser launched by this process is live at any time:
\* when a launch succeeds, every browser launched before it has been closed
\* or has disconnected.
LiveBrowsers == { b \in 1..nBrowsers : bConnected[b] }
C34_AtMostOneLiveBrowser ==
  [][ nBrowsers' = nBrowsers + 1 => LiveBrowsers = {} ]_vars

\* C35: the 'disconnected' event of a browser that is no longer the
\* Session's handle, delivered while the Session holds a newer, connected
\* browser, leaves the Session as it is.
C35_StaleDisconnectLeavesSession ==
  [][ \A b \in BrowserIds :
        (/\ b \in pendingDisc
         /\ b \notin pendingDisc'
         /\ browser # None
         /\ browser # b
         /\ isConnected(browser)
         /\ DisconnectedListener(b))
        => UNCHANGED session ]_vars

\* C36: close() is invoked at most once on a browser handle.  close() is
\* invoked by the step that enters one of the five close sites, on the handle
\* tb.  It is invoked on the Session's handle only; the step that follows
\* the close drops that handle from the Session; and a handle the Session
\* gives up is never the Session's handle again, since the Session's handle
\* changes to none or to a browser launched in that step.  Hence no handle
\* is at a close site twice.
CloseInvoked == pc \notin ClosePcs /\ pc' \in ClosePcs
CloseDone == pc \in ClosePcs /\ pc' \notin ClosePcs
HandleDroppedOrFresh ==
  \/ browser' = None
  \/ (browser' = nBrowsers + 1 /\ nBrowsers' = nBrowsers + 1)
C36_CloseAtMostOncePerHandle ==
  [][ /\ CloseInvoked => (browser # None /\ tb' = browser)
      /\ (pc \in ClosePcs) => (CloseDone \/ (pc' = pc /\ tb' = tb))
      /\ CloseDone => (browser' = None /\ tb' = None)
      /\ browser' # browser => HandleDroppedOrFresh ]_vars
\* the second browser of a run is being closed by playwright_close after the
\* first was closed or lost
C36_Witness ==
  /\ pc = "close_tool"
  /\ tb = 2
  /\ browser = 2
  /\ ~bConnected[1]

\* C37: NavigationTool.execute.  With the context's browser missing or not
\* connected it clears the Session and answers the retry error without
\* reaching page.goto; with the page missing or closed it answers an error,
\* the Session as it was, without reaching page.goto; an Error thrown by the
\* navigation whose message contains one of three texts clears the Session
\* and is answered with the retry error that quotes the message; any other
\* Error leaves execute() as it was thrown, the Session as it was.
C37_LossTexts ==
  { "Target page, context or browser has been closed", "Target closed",
    "Browser has been disconnected" }
C37_HasLossText(m) == \E i \in 1..Len(m) : m[i] \in C37_LossTexts
ExportedFromCache ==
  /\ Len(response.elements) = Len(annotatedElements)
  /\ \A k \in 1..Len(annotatedElements) :
       /\ response.elements[k].i = annotatedElements[k].index
       /\ response.elements[k].t = annotatedElements[k].type
NoPassSinceExport == response.kind = "exported" /\ pageOps = <<"cache">>
C38_IndexRoundTrip ==
  /\ [](NoPassSinceExport => ExportedFromCache)
  /\ [][\A index \in ClickIndexes :
          (/\ NoPassSinceExport
           /\ \E k \in 1..Len(response.elements) :
                response.elements[k].i = index
           /\ response'.index = index
           /\ response'.kind \in {"not_found", "clicked"}
           /\ ClickByIndexTool(index))
          => /\ response'.kind = "clicked"
             /\ \A k \in 1..Len(response.elements) :
                  response.elements[k].i = index
                    => response'.point =
                         Center2(annotatedElements[k].boundingBox)]_vars
\* two elements were exported, the page has put a third element in front
\* of them since and no pass has run: a scan would number them anew
C38_Witness ==
  /\ NoPassSinceExport
  /\ Len(response.elements) = 2
  /\ response.elements[2] = [i |-> 1, t |-> "button"]
  /\ Len(dom) = 3
  /\ AnnotationScan(dom) # annotatedElements

====
